---- MODULE Spec2Model ----
(***************************************************************************)
(* Model of the Processing service of energy-forecast-pipeline:            *)
(*   - ProcessingCompactor (etl/compactor.py): daily Silver compaction and *)
(*     monthly Gold compaction over the partitioned object store,          *)
(*   - Config.is_month_complete (config.py),                               *)
(*   - CanonicalMerger.merge (etl/canonical_merger.py).                    *)
(* Spec      : the compaction runs over the object store.                  *)
(* SpecMerge : CanonicalMerger.merge applied to bounded input tables.      *)
(***************************************************************************)
EXTENDS Integers, Sequences, FiniteSets, TLC

VARIABLES
    prefix,          \* the key prefix of the object store that receives data in the behaviour
    \* ---- object store, Silver layer, one date ----
    silver,          \* [source -> [key -> [exists, rows]]]
    \* ---- locals of a compact_daily_silver run ----
    pc,              \* position inside compact_daily_silver
    cur,             \* source being compacted (weather first, then electricity)
    hourly_files,    \* hourly_files list of _compact_<source>_silver
    compacted_df,    \* compacted_df of _compact_<source>_silver
    del_i,           \* index of the delete loop
    deleted_count,   \* deleted_count of the delete loop
    results,         \* results dict of compact_daily_silver
    \* ---- history of the Silver runs (observations, not program state) ----
    written,         \* the current _compact_<source>_silver call has written its daily file
    touched,         \* [source -> the current/last run wrote or deleted an object of source]
    seq,             \* how the current/last run relates to the run before it
    prev,            \* results of the run before the current/last one
    orig,            \* [source -> rows held by hourly files when the first run started]
    crash_state,     \* "none" | "crashed" | "recovered"
    faulted,         \* a storage fault was injected since orig was recorded
    \* ---- object store, Gold layer ----
    gold_daily,      \* set of [year, month, day] whose day=DD/data.parquet exists
    gold_monthly,    \* set of [year, month] whose monthly data.parquet exists
    m_last,          \* observation of the last compact_monthly_gold call
    \* ---- CanonicalMerger.merge ----
    weather_df,      \* input table: Seq of [datetime, temperature]
    electricity_df,  \* input table: Seq of [datetime, total_load]
    joined,          \* table after _merge_tables and _rename_business
    canonical,       \* table returned by merge
    mstage           \* "input" | "done"

VARIABLES
    \* ---- Processing service main(): BACKFILL and HOURLY modes ----
    p_mode,          \* "BACKFILL" | "HOURLY" | "none"
    p_pc,            \* position inside the mode handler
    p_i,             \* index into date_list of the running loop
    p_now,           \* datetime.now(VN_TZ) of the run
    p_fault,         \* date whose weather Silver read_parquet raises (0: none)
    bronze,          \* [source -> [date -> Bronze file: state and cleaned rows]]
    psilver,         \* [source -> [date -> Silver file of the run's granularity]]
    pgold,           \* [date -> Gold canonical file of the run's granularity]
    p_log,           \* the per-date steps executed so far, in order
    p_exit           \* exit status of the process: -1 while running, else 0 or 1

VARIABLES
    \* ---- DataSplitter.time_series_split ----
    sp_in,           \* arguments of the call
    sp_out,          \* what the call returned or raised
    \* ---- XGBoostFeatureStrategy.create_features ----
    ft_in,           \* configuration and input series
    ft_out,          \* feature tables returned
    \* ---- ModelPredictor.predict ----
    pr_in,           \* target_datetime and the step that fails, if any
    pr_pc,           \* next step of predict
    pr_done,         \* steps executed so far, in order
    pr_out,          \* what predict returned or raised
    \* ---- XGBoostModelWrapper feature importance ----
    im_in,           \* gain scores of the fitted model and top_n
    im_out           \* what get_feature_importance returned

VARIABLES
    \* ---- XGBoostModelWrapper.fit / predict ----
    sc_in,           \* X_train, X_val (or None) and X_test of the run
    sc_pc,           \* position inside fit, then the predict call
    scaler,          \* the pipeline's StandardScaler: fitted or not, and on which rows
    sc_log,          \* the scaler operations so far, in order
    sc_out,          \* what fit / predict returned or raised
    \* ---- CanonicalMerger._impute_missing on one column ----
    ic_in,           \* the column before imputation
    ic_out,          \* the column after interpolate and after the fill fallback
    \* ---- ProcessingCompactor.compact_hourly_gold ----
    gh_in,           \* the Gold partition of the date before the call, and the fault
    gh_pc,           \* position inside compact_hourly_gold
    gh_store,        \* the Gold partition of the date: hourly files and daily file
    gh_files,        \* hourly_files not yet visited by the delete loop
    gh_out           \* the stats returned

VARIABLES
    \* ---- DataCompactor.compact_weather_data / compact_electricity_data ----
    bc_in,           \* data source and the hourly Bronze files before the call
    bc_pc,           \* position inside the compaction
    bc_store,        \* the Bronze partition of the date: hourly files and data.json
    bc_files,        \* hourly_files not yet visited by the current loop
    bc_all,          \* all_hours / all_history collected so far
    bc_out           \* the stats returned, or the exception raised

VARIABLES
    \* ---- HOURLY / COMPACTION_DAILY runs, DataLoader and Predictor ----
    ld_fmt,          \* timestamp format of the electricity API records
    ld_clock,        \* the next hour the HOURLY run will process
    ld_silver,       \* Silver partitions of both sources: hourly and daily files
    ld_gold,         \* Gold canonical partition: hourly and daily files
    ld_out           \* result of the last load_recent_hourly_gold / predict call

VARIABLES
    \* ---- compact_monthly_gold on Gold files with rows, and load_canonical_data ----
    mc_in,           \* year, month and the daily Gold files before the call
    mc_pc,           \* position inside compact_monthly_gold
    mc_store,        \* Gold partition of the month: daily files and the monthly file
    mc_files,        \* daily_files not yet visited by the delete loop
    mc_df,           \* monthly_df
    mc_fails,        \* delete_file calls that returned False so far
    mc_out           \* the stats returned, or the exception raised

procVars  == <<p_mode, p_pc, p_i, p_now, p_fault, bronze, psilver, pgold, p_log, p_exit>>
splitVars == <<sp_in, sp_out>>
featVars  == <<ft_in, ft_out>>
predVars  == <<pr_in, pr_pc, pr_done, pr_out>>
impVars   == <<im_in, im_out>>
fitVars   == <<sc_in, sc_pc, scaler, sc_log, sc_out>>
imputeVars == <<ic_in, ic_out>>
ghVars    == <<gh_in, gh_pc, gh_store, gh_files, gh_out>>
bcVars    == <<bc_in, bc_pc, bc_store, bc_files, bc_all, bc_out>>
ldVars    == <<ld_fmt, ld_clock, ld_silver, ld_gold, ld_out>>
mcVars    == <<mc_in, mc_pc, mc_store, mc_files, mc_df, mc_fails, mc_out>>
moreVars  == <<bcVars, ldVars, mcVars>>
lateVars  == <<fitVars, imputeVars, ghVars, moreVars>>
extVars   == <<procVars, splitVars, featVars, predVars, impVars, lateVars>>

silverVars == <<silver, pc, cur, hourly_files, compacted_df, del_i, deleted_count,
                results, written, touched, seq, prev, orig, crash_state, faulted>>
goldVars   == <<gold_daily, gold_monthly, m_last>>
mergeVars  == <<weather_df, electricity_df, joined, canonical, mstage>>
vars       == <<prefix, silverVars, goldVars, mergeVars, extVars>>
baseVars   == <<prefix, silverVars, goldVars, mergeVars, lateVars>>
oldVars    == <<prefix, silverVars, goldVars, mergeVars,
                procVars, splitVars, featVars, predVars, impVars>>
priorVars  == <<oldVars, fitVars, imputeVars, ghVars>>

----------------------------------------------------------------------------
(* Bounds *)

\* hours of the day that are modelled: 0 .. MaxHour-1
MaxHour == 2
\* largest day of month for which a daily Gold file is ever written in the model
MaxGoldDay == 2
\* most daily Gold files present at once
MaxGoldFiles == 2
\* most rows of an input table of merge
MaxRows == 3

Hours   == 0 .. (MaxHour - 1)
Sources == {"weather", "electricity"}

\* Config.WEATHER_SILVER_PATH, Config.ELECTRICITY_SILVER_PATH
SilverPath(src) == IF src = "weather" THEN "silver/weather" ELSE "silver/electricity"
\* Config.GOLD_CANONICAL_PATH
GoldCanonicalPath == "gold/canonical"

----------------------------------------------------------------------------
(* Generic helpers on tables (sequences of rows) *)

Range(s) == {s[i] : i \in DOMAIN s}

RECURSIVE InsertSorted(_, _)
\* insert row x into the datetime-sorted table s, after every row whose
\* datetime is <= x.datetime
InsertSorted(s, x) ==
    IF s = <<>> THEN <<x>>
    ELSE IF x.datetime < Head(s).datetime THEN <<x>> \o s
    ELSE <<Head(s)>> \o InsertSorted(Tail(s), x)

RECURSIVE SortByDatetime(_)
\* df.sort_values('datetime').reset_index(drop=True): ascending, rows of equal
\* datetime keep their input order
SortByDatetime(s) ==
    IF s = <<>> THEN <<>>
    ELSE InsertSorted(SortByDatetime(SubSeq(s, 1, Len(s) - 1)), s[Len(s)])

RECURSIVE Concat(_)
\* pd.concat(dfs, ignore_index=True)
Concat(dfs) == IF dfs = <<>> THEN <<>> ELSE Head(dfs) \o Concat(Tail(dfs))

Datetimes(df) == {df[i].datetime : i \in DOMAIN df}

----------------------------------------------------------------------------
(* Object store, Silver layer: the partition of one source and one date.   *)
(* Keys under silver/<source>/year=YYYY/month=MM/day=DD/ are the hourly    *)
(* files HH_30.parquet and the daily file data.parquet.  A Silver row is   *)
(* identified by its datetime (the hour).                                  *)

DailyKey    == [kind |-> "daily", hour |-> 0]
HourKey(h)  == [kind |-> "hourly", hour |-> h]
SilverKeys  == {HourKey(h) : h \in Hours} \cup {DailyKey}
NoFile      == [exists |-> FALSE, rows |-> <<>>]
File(rows)  == [exists |-> TRUE, rows |-> rows]
EmptyStore  == [k \in SilverKeys |-> NoFile]

\* S3 lists keys in lexicographic order: 00_30.parquet < 01_30.parquet < ... < data.parquet
KeyRank(k) == IF k.kind = "hourly" THEN k.hour ELSE MaxHour

RECURSIVE KeysInOrder(_)
KeysInOrder(S) ==
    IF S = {} THEN <<>>
    ELSE LET m == CHOOSE x \in S : \A y \in S : KeyRank(x) <= KeyRank(y)
         IN <<m>> \o KeysInOrder(S \ {m})

\* response['Contents'] of list_objects_v2(Prefix=partition_prefix)
ListObjects(store) == {k \in SilverKeys : store[k].exists}

\* obj['Key'].endswith('.parquet') and '_30.parquet' in obj['Key']
IsHourlyFile(k) == k.kind = "hourly"

\* hourly_files = [obj['Key'] for obj in response['Contents'] if ...]
HourlyFilesOf(contents) == KeysInOrder({k \in contents : IsHourlyFile(k)})

\* rows held by the hourly files of a store
HourlyRows(store) ==
    UNION {Range(store[k].rows) : k \in {x \in SilverKeys : x.kind = "hourly" /\ store[x].exists}}

NoResult == [status |-> "none", files_compacted |-> 0, files_deleted |-> 0]
Result(st, nc, nd) == [status |-> st, files_compacted |-> nc, files_deleted |-> nd]

\* the hourly Silver write of HOURLY mode: <hour>_30.parquet holds the cleaned
\* rows of that hour
WriteHourlySilver(src, h) ==
    /\ prefix = SilverPath(src)
    /\ pc = "idle"
    /\ silver' = [silver EXCEPT ![src][HourKey(h)] = File(<<[datetime |-> h]>>)]
    /\ seq' = "fresh"
    /\ UNCHANGED <<pc, cur, hourly_files, compacted_df, del_i, deleted_count, results,
                   written, touched, prev, orig, crash_state, faulted>>
    /\ UNCHANGED <<prefix, goldVars, mergeVars, extVars>>

\* compact_daily_silver: entry
StartDaily ==
    /\ prefix \in {SilverPath(s) : s \in Sources}
    /\ pc = "idle"
    /\ pc' = "list"
    /\ cur' = "weather"
    /\ results' = [s \in Sources |-> NoResult]
    /\ touched' = [s \in Sources |-> FALSE]
    /\ seq' = IF seq \in {"done1", "done2"} THEN "run2" ELSE "run1"
    /\ prev' = results
    /\ IF crash_state = "crashed"
       THEN UNCHANGED <<orig, faulted, crash_state>>
       ELSE /\ orig' = [s \in Sources |-> HourlyRows(silver[s])]
            /\ faulted' = FALSE
            /\ crash_state' = "none"
    /\ UNCHANGED <<silver, hourly_files, compacted_df, del_i, deleted_count, written>>
    /\ UNCHANGED <<prefix, goldVars, mergeVars, extVars>>

\* _compact_<source>_silver returns r (or raises and compact_daily_silver records
\* status "error"); compact_daily_silver goes on to electricity, or returns results
ReturnResult(r) ==
    /\ results' = [results EXCEPT ![cur] = r]
    /\ hourly_files' = <<>>
    /\ compacted_df' = <<>>
    /\ del_i' = 0
    /\ deleted_count' = 0
    /\ written' = FALSE
    /\ IF cur = "weather"
       THEN /\ cur' = "electricity"
            /\ pc' = "list"
            /\ UNCHANGED <<seq, crash_state>>
       ELSE /\ cur' = "weather"
            /\ pc' = "idle"
            /\ seq' = IF seq = "run2" THEN "done2" ELSE "done1"
            /\ crash_state' = IF crash_state = "crashed" THEN "recovered" ELSE "none"

\* list the partition; early returns no_files / already_compacted
ListHourly ==
    /\ pc = "list"
    /\ LET contents == ListObjects(silver[cur])
           files    == HourlyFilesOf(contents)
       IN IF contents = {}
          THEN ReturnResult(Result("no_files", 0, 0))
          ELSE IF files = <<>>
          THEN ReturnResult(Result("already_compacted", 0, 0))
          ELSE /\ pc' = "read"
               /\ hourly_files' = files
               /\ UNCHANGED <<cur, compacted_df, del_i, deleted_count, results, written,
                              seq, crash_state>>
    /\ UNCHANGED <<silver, touched, prev, orig, faulted>>
    /\ UNCHANGED <<prefix, goldVars, mergeVars, extVars>>

\* read every hourly file, concat, sort by datetime; a failed read raises
ReadHourly ==
    /\ pc = "read"
    /\ \/ /\ compacted_df' = SortByDatetime(Concat(
                 [i \in 1 .. Len(hourly_files) |-> silver[cur][hourly_files[i]].rows]))
          /\ pc' = "write"
          /\ UNCHANGED <<cur, hourly_files, del_i, deleted_count, results, written,
                         seq, crash_state, faulted>>
       \/ /\ ReturnResult(Result("error", 0, 0))
          /\ faulted' = TRUE
    /\ UNCHANGED <<silver, touched, prev, orig>>
    /\ UNCHANGED <<prefix, goldVars, mergeVars, extVars>>

\* write_parquet(compacted_df, daily_key) succeeded: whole-object overwrite
WriteDailyOk ==
    /\ pc = "write"
    /\ silver' = [silver EXCEPT ![cur][DailyKey] = File(compacted_df)]
    /\ written' = TRUE
    /\ touched' = [touched EXCEPT ![cur] = TRUE]
    /\ pc' = "delete"
    /\ del_i' = 1
    /\ deleted_count' = 0
    /\ UNCHANGED <<cur, hourly_files, compacted_df, results, seq, prev, orig,
                   crash_state, faulted>>
    /\ UNCHANGED <<prefix, goldVars, mergeVars, extVars>>

\* write_parquet raised: the exception leaves _compact_<source>_silver
WriteDailyFail ==
    /\ pc = "write"
    /\ ReturnResult(Result("error", 0, 0))
    /\ faulted' = TRUE
    /\ UNCHANGED <<silver, touched, prev, orig>>
    /\ UNCHANGED <<prefix, goldVars, mergeVars, extVars>>

\* a write failure that is swallowed: the delete loop runs all the same
WriteDaily_swallowed ==
    \/ WriteDailyOk
    \/ /\ pc = "write"
       /\ pc' = "delete"
       /\ del_i' = 1
       /\ deleted_count' = 0
       /\ faulted' = TRUE
       /\ UNCHANGED <<silver, cur, hourly_files, compacted_df, results, written, touched,
                      seq, prev, orig, crash_state>>
       /\ UNCHANGED <<prefix, goldVars, mergeVars, extVars>>

WriteDaily == WriteDailyOk \/ WriteDailyFail

\* one iteration of `for file_key in hourly_files: if delete_file(file_key): ...`
\* delete_file returns False (and leaves the object) on a ClientError
DeleteHourly ==
    /\ pc = "delete"
    /\ del_i <= Len(hourly_files)
    /\ \/ /\ silver' = [silver EXCEPT ![cur][hourly_files[del_i]] = NoFile]
          /\ deleted_count' = deleted_count + 1
          /\ touched' = [touched EXCEPT ![cur] = TRUE]
          /\ UNCHANGED faulted
       \/ /\ faulted' = TRUE
          /\ UNCHANGED <<silver, deleted_count, touched>>
    /\ del_i' = del_i + 1
    /\ UNCHANGED <<pc, cur, hourly_files, compacted_df, results, written, seq, prev,
                   orig, crash_state>>
    /\ UNCHANGED <<prefix, goldVars, mergeVars, extVars>>

\* the delete loop is over: return status success
ReturnSuccess ==
    /\ pc = "delete"
    /\ del_i > Len(hourly_files)
    /\ ReturnResult(Result("success", Len(hourly_files), deleted_count))
    /\ UNCHANGED <<silver, touched, prev, orig, faulted>>
    /\ UNCHANGED <<prefix, goldVars, mergeVars, extVars>>

\* the process dies inside a run: locals are lost, the object store stays
Crash ==
    /\ pc # "idle"
    /\ pc' = "idle"
    /\ cur' = "weather"
    /\ hourly_files' = <<>>
    /\ compacted_df' = <<>>
    /\ del_i' = 0
    /\ deleted_count' = 0
    /\ written' = FALSE
    /\ results' = [s \in Sources |-> NoResult]
    /\ seq' = "fresh"
    /\ crash_state' = "crashed"
    /\ UNCHANGED <<silver, touched, prev, orig, faulted>>
    /\ UNCHANGED <<prefix, goldVars, mergeVars, extVars>>

InitSilver ==
    /\ silver = [s \in Sources |-> EmptyStore]
    /\ pc = "idle"
    /\ cur = "weather"
    /\ hourly_files = <<>>
    /\ compacted_df = <<>>
    /\ del_i = 0
    /\ deleted_count = 0
    /\ results = [s \in Sources |-> NoResult]
    /\ written = FALSE
    /\ touched = [s \in Sources |-> FALSE]
    /\ seq = "fresh"
    /\ prev = [s \in Sources |-> NoResult]
    /\ orig = [s \in Sources |-> {}]
    /\ crash_state = "none"
    /\ faulted = FALSE

NextSilver ==
    \/ \E src \in Sources, h \in Hours : WriteHourlySilver(src, h)
    \/ StartDaily
    \/ ListHourly
    \/ ReadHourly
    \/ WriteDaily
    \/ DeleteHourly
    \/ ReturnSuccess
    \/ Crash

----------------------------------------------------------------------------
(* Config.is_month_complete and ProcessingCompactor.compact_monthly_gold   *)

Years      == {2024, 2025}
GoldMonths == {1, 2, 12}
NowDays    == {15}

\* datetime.now(VN_TZ) is timezone-aware; datetime(year, month, day) is naive
AwareDT(y, m, d) == [year |-> y, month |-> m, day |-> d, aware |-> TRUE]
NaiveDT(y, m, d) == [year |-> y, month |-> m, day |-> d, aware |-> FALSE]
NowSet == {AwareDT(y, m, d) : y \in Years, m \in GoldMonths, d \in NowDays}

\* calendar.monthrange(year, month)[1]
IsLeap(y) == (y % 4 = 0 /\ y % 100 # 0) \/ y % 400 = 0
DaysInMonth(y, m) ==
    IF m = 2 THEN (IF IsLeap(y) THEN 29 ELSE 28)
    ELSE IF m \in {4, 6, 9, 11} THEN 30 ELSE 31

\* a (at midnight) is before b (at any time of day b.day)
DateBefore(a, b) ==
    \/ a.year < b.year
    \/ a.year = b.year /\ a.month < b.month
    \/ a.year = b.year /\ a.month = b.month /\ a.day <= b.day

\* Python's a < b on datetimes, a at 00:00 and b at some later time of its day:
\* ordering a naive against an aware datetime raises TypeError
DtLess(a, b) ==
    IF a.aware # b.aware THEN "TypeError"
    ELSE IF DateBefore(a, b) THEN "true" ELSE "false"

\* Python's a > b on datetimes (same operands)
DtGreater(a, b) ==
    IF a.aware # b.aware THEN "TypeError"
    ELSE IF DateBefore(a, b) THEN "false" ELSE "true"

\* Config.is_month_complete(year, month): "true" | "false" | "TypeError"
IsMonthComplete(year, month, now_vn) ==
    IF year = now_vn.year /\ month = now_vn.month THEN "false"
    ELSE LET target_date == NaiveDT(year, month, 1)
             future      == DtGreater(target_date, now_vn)
         IN IF future = "TypeError" THEN "TypeError"
            ELSE IF future = "true" THEN "false"
            ELSE DtLess(NaiveDT(year, month, DaysInMonth(year, month)), now_vn)

GoldDay(y, m, d)  == [year |-> y, month |-> m, day |-> d]
GoldMonth(y, m)   == [year |-> y, month |-> m]
GoldDayKeys       == {GoldDay(y, m, d) : y \in Years, m \in GoldMonths, d \in 1 .. MaxGoldDay}

\* daily_files: keys under the month prefix with 'day=' in the key and ending
\* in '/data.parquet' (the monthly file itself has no 'day=')
DailyFilesOf(gd, year, month) == {f \in gd : f.year = year /\ f.month = month}

RECURSIVE DaysInOrder(_)
DaysInOrder(S) ==
    IF S = {} THEN <<>>
    ELSE LET m == CHOOSE x \in S : \A y \in S : x.day <= y.day
         IN <<m>> \o DaysInOrder(S \ {m})

Op(name, key) == [op |-> name, key |-> key]

RECURSIVE DeleteOps(_, _)
\* the delete loop over daily_files; del_fail are the keys whose delete_file
\* returns False
DeleteOps(files, del_fail) ==
    IF files = <<>> THEN <<>>
    ELSE <<Op(IF Head(files) \in del_fail THEN "delete_fail" ELSE "delete", Head(files))>>
         \o DeleteOps(Tail(files), del_fail)

\* compact_monthly_gold(year, month) on the Gold store (gd, gm) at time now_vn,
\* with the storage faults of this call given: what it returns (or raises),
\* the store it leaves, and the storage operations it performed, in order
CompactMonthlyGold(year, month, now_vn, gd, gm, read_fails, write_fails, del_fail) ==
    LET complete    == IsMonthComplete(year, month, now_vn)
        found       == DailyFilesOf(gd, year, month)
        daily_files == DaysInOrder(found)
        has_objects == found # {} \/ GoldMonth(year, month) \in gm
        Out(st, gd2, gm2, ops) ==
            [status |-> st, complete |-> complete, gold_daily |-> gd2,
             gold_monthly |-> gm2, ops |-> ops]
        list_op     == <<Op("list", GoldMonth(year, month))>>
        read_ops    == [i \in 1 .. Len(daily_files) |-> Op("read", daily_files[i])]
    IN  IF complete = "TypeError" THEN Out("raised_TypeError", gd, gm, <<>>)
        ELSE IF complete = "false" THEN Out("incomplete", gd, gm, <<>>)
        ELSE IF ~has_objects THEN Out("no_files", gd, gm, list_op)
        ELSE IF daily_files = <<>> THEN Out("no_files", gd, gm, list_op)
        ELSE IF Len(daily_files) < DaysInMonth(year, month)
             THEN Out("incomplete_data", gd, gm, list_op)
        ELSE IF read_fails THEN Out("raised", gd, gm, list_op \o read_ops)
        ELSE IF write_fails
             THEN Out("raised", gd, gm,
                      list_op \o read_ops \o <<Op("write_fail", GoldMonth(year, month))>>)
        ELSE Out("success",
                 gd \ (found \ del_fail),
                 gm \cup {GoldMonth(year, month)},
                 list_op \o read_ops \o <<Op("write_ok", GoldMonth(year, month))>>
                    \o DeleteOps(daily_files, del_fail))

NoCall == [called |-> FALSE, year |-> 0, month |-> 0, now |-> AwareDT(0, 0, 0),
           found |-> 0, complete |-> "false", status |-> "none", ops |-> <<>>]

\* process_silver_to_canonical writes day=DD/data.parquet of the Gold layer
WriteGoldDaily(y, m, d) ==
    /\ prefix = GoldCanonicalPath
    /\ GoldDay(y, m, d) \notin gold_daily
    /\ Cardinality(gold_daily) < MaxGoldFiles
    /\ gold_daily' = gold_daily \cup {GoldDay(y, m, d)}
    /\ UNCHANGED <<gold_monthly, m_last>>
    /\ UNCHANGED <<prefix, silverVars, mergeVars, extVars>>

\* storage faults can only occur in a call that reaches the storage reads
FaultChoices(year, month, now_vn) ==
    IF IsMonthComplete(year, month, now_vn) = "true" THEN BOOLEAN ELSE {FALSE}

\* one call compact_monthly_gold(year, month) (COMPACTION_MONTHLY or BACKFILL)
RunMonthlyGold(year, month, now_vn) ==
    /\ prefix = GoldCanonicalPath
    /\ \E read_fails \in FaultChoices(year, month, now_vn),
          write_fails \in FaultChoices(year, month, now_vn),
          del_fail \in SUBSET (IF IsMonthComplete(year, month, now_vn) = "true"
                               THEN DailyFilesOf(gold_daily, year, month) ELSE {}) :
          LET out == CompactMonthlyGold(year, month, now_vn, gold_daily, gold_monthly,
                                        read_fails, write_fails, del_fail)
          IN /\ gold_daily' = out.gold_daily
             /\ gold_monthly' = out.gold_monthly
             /\ m_last' = [called |-> TRUE, year |-> year, month |-> month, now |-> now_vn,
                           found |-> Cardinality(DailyFilesOf(gold_daily, year, month)),
                           complete |-> out.complete, status |-> out.status,
                           ops |-> out.ops]
    /\ UNCHANGED <<prefix, silverVars, mergeVars, extVars>>

InitGold ==
    /\ gold_daily = {}
    /\ gold_monthly = {}
    /\ m_last = NoCall

NextGold ==
    \/ \E y \in Years, m \in GoldMonths, d \in 1 .. MaxGoldDay : WriteGoldDaily(y, m, d)
    \/ \E y \in Years, m \in GoldMonths, now_vn \in NowSet : RunMonthlyGold(y, m, now_vn)

----------------------------------------------------------------------------
(* CanonicalMerger.merge.  A cell is a number or NaN; numbers are kept in  *)
(* units of 1/Scale so that the interpolated values are exact integers.    *)

Scale  == 60 * 60
NaN    == [nan |-> TRUE, v |-> 0]
Num(x) == [nan |-> FALSE, v |-> x]
Deg(d) == Num(d * Scale)

\* interpolate(limit=3, ...)
InterpLimit == 3
\* df['temperature'] > 60, df['temperature'] < -10
TempMax == 60
TempMin == -10

Dts        == {0, 1, 2}
TempVals   == {NaN, Deg(20), Deg(70), Deg(-20)}
DemandVals == {NaN, Deg(100), Deg(-100)}

Min2(a, b) == IF a < b THEN a ELSE b
Max2(a, b) == IF a > b THEN a ELSE b

\* _time_alignment: pd.to_datetime leaves datetime values as they are; both
\* tables are sorted by datetime
TimeAlignment(w, e) == [weather |-> SortByDatetime(w), electricity |-> SortByDatetime(e)]

RECURSIVE MatchRows(_, _)
\* the rows of e that join with the weather row wr, in the order of e
MatchRows(wr, e) ==
    IF e = <<>> THEN <<>>
    ELSE (IF Head(e).datetime = wr.datetime
          THEN <<[datetime |-> wr.datetime, temperature |-> wr.temperature,
                  total_load |-> Head(e).total_load]>>
          ELSE <<>>) \o MatchRows(wr, Tail(e))

RECURSIVE MergeTables_left(_, _)
\* how='left': a weather row without a match is kept, total_load missing
MergeTables_left(w, e) ==
    IF w = <<>> THEN <<>>
    ELSE (IF MatchRows(Head(w), e) = <<>>
          THEN <<[datetime |-> Head(w).datetime, temperature |-> Head(w).temperature,
                  total_load |-> NaN]>>
          ELSE MatchRows(Head(w), e)) \o MergeTables_left(Tail(w), e)

RECURSIVE MergeTables(_, _)
\* pd.merge(weather_df, electricity_df, on='datetime', how='inner'): one row per
\* pair of rows with equal datetime, in the order of the left keys
MergeTables(w, e) ==
    IF w = <<>> THEN <<>>
    ELSE MatchRows(Head(w), e) \o MergeTables(Tail(w), e)

\* _rename_business: total_load -> electricity_demand
RenameBusiness(df) ==
    [i \in 1 .. Len(df) |-> [datetime |-> df[i].datetime,
                             temperature |-> df[i].temperature,
                             electricity_demand |-> df[i].total_load]]

ValidIdx(col) == {i \in 1 .. Len(col) : ~col[i].nan}

\* Series.interpolate(method='linear', limit=limit, limit_direction='both'):
\* a NaN stays NaN when it is more than `limit` places after the nearest valid
\* cell before it (or no valid cell precedes it) and also more than `limit`
\* places before the nearest valid cell after it (or none follows); every other
\* NaN takes np.interp over the positions: linear between its valid neighbours,
\* the edge value outside them
Interpolate(col, limit) ==
    LET N == Len(col)
        V == ValidIdx(col)
    IN  IF V = {} \/ V = 1 .. N THEN col
        ELSE [i \in 1 .. N |->
                IF ~col[i].nan THEN col[i]
                ELSE LET fwd_blocked == \A j \in Max2(1, i - limit) .. i : col[j].nan
                         bwd_blocked == \A j \in i .. Min2(N, i + limit) : col[j].nan
                         before == {j \in V : j < i}
                         after  == {j \in V : j > i}
                     IN  IF fwd_blocked /\ bwd_blocked THEN NaN
                         ELSE IF before = {}
                              THEN col[CHOOSE j \in after : \A k \in after : j <= k]
                         ELSE IF after = {}
                              THEN col[CHOOSE j \in before : \A k \in before : j >= k]
                         ELSE LET l == CHOOSE j \in before : \A k \in before : j >= k
                                  r == CHOOSE j \in after : \A k \in after : j <= k
                              IN Num(col[l].v + ((col[r].v - col[l].v) * (i - l)) \div (r - l))]

\* fillna(method='ffill')
FFill(col) ==
    [i \in 1 .. Len(col) |->
        IF ~col[i].nan THEN col[i]
        ELSE LET before == {j \in ValidIdx(col) : j < i}
             IN IF before = {} THEN NaN
                ELSE col[CHOOSE j \in before : \A k \in before : j >= k]]

\* fillna(method='bfill')
BFill(col) ==
    [i \in 1 .. Len(col) |->
        IF ~col[i].nan THEN col[i]
        ELSE LET after == {j \in ValidIdx(col) : j > i}
             IN IF after = {} THEN NaN
                ELSE col[CHOOSE j \in after : \A k \in after : j <= k]]

\* the body of the loop of _impute_missing for one column
ImputeColumn(col) ==
    IF \A i \in 1 .. Len(col) : ~col[i].nan THEN col
    ELSE BFill(FFill(Interpolate(col, InterpLimit)))

\* _impute_missing over the numeric business columns of the table
ImputeMissing(df) ==
    LET dem == ImputeColumn([i \in 1 .. Len(df) |-> df[i].electricity_demand])
        tmp == ImputeColumn([i \in 1 .. Len(df) |-> df[i].temperature])
    IN [i \in 1 .. Len(df) |-> [datetime |-> df[i].datetime,
                                temperature |-> tmp[i],
                                electricity_demand |-> dem[i]]]

\* only the upper limit is checked
TempOutlier_upper(c) == ~c.nan /\ c.v > TempMax * Scale
\* (df['temperature'] > 60) | (df['temperature'] < -10); NaN compares False
TempOutlier(c) == ~c.nan /\ (c.v > TempMax * Scale \/ c.v < TempMin * Scale)
\* df['electricity_demand'] < 0
DemandOutlier(c) == ~c.nan /\ c.v < 0

\* the outliers are set to NaN and not imputed again
FlagOutliers_noimpute(df) ==
    [i \in 1 .. Len(df) |->
        [datetime |-> df[i].datetime,
         temperature |-> IF TempOutlier(df[i].temperature) THEN NaN
                         ELSE df[i].temperature,
         electricity_demand |-> IF DemandOutlier(df[i].electricity_demand) THEN NaN
                                ELSE df[i].electricity_demand]]

\* _flag_outliers: set the outliers to NaN, then impute again
FlagOutliers(df) ==
    ImputeMissing(
        [i \in 1 .. Len(df) |->
            [datetime |-> df[i].datetime,
             temperature |-> IF TempOutlier(df[i].temperature) THEN NaN
                             ELSE df[i].temperature,
             electricity_demand |-> IF DemandOutlier(df[i].electricity_demand) THEN NaN
                                    ELSE df[i].electricity_demand]])

RECURSIVE DropNa(_)
\* df.dropna(subset=['datetime', 'electricity_demand', 'temperature'])
DropNa(df) ==
    IF df = <<>> THEN <<>>
    ELSE (IF Head(df).electricity_demand.nan \/ Head(df).temperature.nan
          THEN <<>> ELSE <<Head(df)>>) \o DropNa(Tail(df))

\* _finalize: select the canonical columns, sort by datetime, drop the rows
\* with a missing critical column
Finalize(df) == DropNa(SortByDatetime(df))

\* table after steps 1-3 of merge
Joined(w, e) ==
    LET al == TimeAlignment(w, e)
    IN RenameBusiness(MergeTables(al.weather, al.electricity))

\* CanonicalMerger.merge(weather_df, electricity_df)
Merge(w, e) == Finalize(FlagOutliers(ImputeMissing(Joined(w, e))))

\* input tables
WeatherRows == [datetime : Dts, temperature : TempVals]
\* weather tables: up to MaxRows rows, a datetime may occur more than once; the
\* rows arrive latest first, so that the sort of _time_alignment has to reorder
\* them and (being stable) yields every datetime-sorted table of these rows
WeatherTables ==
    UNION {{w \in [1 .. n -> WeatherRows] :
                \A i \in 1 .. (n - 1) : w[i].datetime >= w[i + 1].datetime}
           : n \in 0 .. MaxRows}
\* electricity tables: at most one row per datetime, given in ascending order
RECURSIVE ElectricityRows(_, _)
ElectricityRows(D, f) ==
    IF D = {} THEN <<>>
    ELSE LET m == CHOOSE x \in D : \A y \in D : x <= y
         IN <<[datetime |-> m, total_load |-> f[m]]>> \o ElectricityRows(D \ {m}, f)

ElectricityTables ==
    UNION {{ElectricityRows(D, f) : f \in [D -> DemandVals]} : D \in SUBSET Dts}

DoMerge ==
    /\ prefix = "none"
    /\ mstage = "input"
    /\ joined' = Joined(weather_df, electricity_df)
    /\ canonical' = Merge(weather_df, electricity_df)
    /\ mstage' = "done"
    /\ UNCHANGED <<weather_df, electricity_df>>
    /\ UNCHANGED <<prefix, silverVars, goldVars, extVars>>

InitMergeIdle ==
    /\ weather_df = <<>>
    /\ electricity_df = <<>>
    /\ joined = <<>>
    /\ canonical = <<>>
    /\ mstage = "input"

----------------------------------------------------------------------------
(* Processing service main(): run_backfill_mode and run_hourly_mode.  A    *)
(* date is its index in date_list; in HOURLY mode the one target hour is   *)
(* date 1 and the files are the hourly ones.                               *)

\* dates of the BACKFILL range
MaxDates == 2
Dates == 1 .. MaxDates

\* the dates of the range are the first days of this month
ProcMonth == GoldMonth(2025, 1)
\* now: the same month, or the month after
ProcNowSet == {n \in NowSet : n.year = 2025 /\ n.month \in {1, 2}}

\* cleaned tables a Bronze file can yield
ProcWeatherTables ==
    {<<[datetime |-> t, temperature |-> Deg(20)]>> : t \in {0, 1}}
ProcElectricityTables ==
    {<<[datetime |-> 0, total_load |-> Deg(100)]>>, <<>>}

\* a Bronze object: absent, not cleanable (read_json / clean / validate_output
\* raises), or cleanable to the given rows
BronzeMissing == [state |-> "missing", rows |-> <<>>]
BronzeBad     == [state |-> "bad", rows |-> <<>>]
BronzeOk(t)   == [state |-> "ok", rows |-> t]
BronzeFiles(src) ==
    {BronzeMissing, BronzeBad}
        \cup {BronzeOk(t) : t \in IF src = "weather" THEN ProcWeatherTables
                                  ELSE ProcElectricityTables}

Step(name, d, ok, note) == [step |-> name, date |-> d, ok |-> ok, note |-> note]

\* validate_canonical(df): "True" | "False" | "ValueError"
ValidateCanonical(df) ==
    IF df = <<>> THEN "False"
    ELSE IF \E i \in 1 .. Len(df) :
                df[i].electricity_demand.nan \/ df[i].temperature.nan
         THEN "ValueError"
    ELSE IF \E i \in 1 .. (Len(df) - 1) : df[i].datetime > df[i + 1].datetime
         THEN "ValueError"
    ELSE "True"

\* process_weather_bronze_to_silver / process_electricity_bronze_to_silver for
\* one date (or hour): the value returned and the Silver file left behind
BronzeToSilver(src, b, old) ==
    IF b.state = "missing" THEN [ok |-> FALSE, file |-> old, note |-> "bronze_missing"]
    ELSE IF b.state = "bad" THEN [ok |-> FALSE, file |-> old, note |-> "exception"]
    ELSE IF src = "electricity" /\ b.rows = <<>>
         THEN [ok |-> FALSE, file |-> old, note |-> "empty"]
    ELSE [ok |-> TRUE, file |-> File(b.rows), note |-> "written"]

\* body of process_silver_to_canonical / process_hourly_silver_to_gold for one
\* date: what happens ("missing": a Silver file is absent, "raised": an
\* exception reached the except clause, "written": the Gold file was written)
\* and the Gold file left behind
SilverToCanonical(w, e, read_raises, old) ==
    IF ~w.exists \/ ~e.exists
    THEN [outcome |-> "missing", file |-> old, validate |-> "none"]
    ELSE IF read_raises
    THEN [outcome |-> "raised", file |-> old, validate |-> "none"]
    ELSE LET canonical_df == Merge(w.rows, e.rows)
             valid == ValidateCanonical(canonical_df)
         IN IF valid = "ValueError"
            THEN [outcome |-> "raised", file |-> old, validate |-> valid]
            ELSE [outcome |-> "written", file |-> File(canonical_df), validate |-> valid]

\* run_backfill_mode step 1, one iteration of `for date in date_list`
BackfillSilverDate ==
    /\ p_mode = "BACKFILL"
    /\ p_pc = "bf_silver"
    /\ LET w == BronzeToSilver("weather", bronze["weather"][p_i], psilver["weather"][p_i])
           e == BronzeToSilver("electricity", bronze["electricity"][p_i],
                               psilver["electricity"][p_i])
       IN /\ psilver' = [psilver EXCEPT !["weather"][p_i] = w.file,
                                        !["electricity"][p_i] = e.file]
          /\ p_log' = p_log \o <<Step("weather", p_i, w.ok, w.note),
                                 Step("electricity", p_i, e.ok, e.note)>>
    /\ IF p_i < MaxDates
       THEN p_i' = p_i + 1 /\ p_pc' = p_pc
       ELSE p_i' = 1 /\ p_pc' = "bf_canonical"
    /\ UNCHANGED <<p_mode, p_now, p_fault, bronze, pgold, p_exit>>
    /\ UNCHANGED <<baseVars, splitVars, featVars, predVars, impVars>>

\* run_backfill_mode step 2: one iteration of the loop of
\* process_silver_to_canonical, which runs inside a single try block
BackfillCanonicalDate ==
    /\ p_mode = "BACKFILL"
    /\ p_pc = "bf_canonical"
    /\ LET r == SilverToCanonical(psilver["weather"][p_i], psilver["electricity"][p_i],
                                  p_fault = p_i, pgold[p_i])
       IN /\ pgold' = [pgold EXCEPT ![p_i] = r.file]
          /\ p_log' = Append(p_log, Step("canonical", p_i, r.outcome # "raised", r.outcome))
          /\ IF r.outcome = "raised" \/ p_i = MaxDates
             THEN p_i' = 1 /\ p_pc' = "bf_monthly"
             ELSE p_i' = p_i + 1 /\ p_pc' = p_pc
    /\ UNCHANGED <<p_mode, p_now, p_fault, bronze, psilver, p_exit>>
    /\ UNCHANGED <<baseVars, splitVars, featVars, predVars, impVars>>

\* run_backfill_mode step 3: compact_monthly_gold for the months of date_list;
\* an exception it raises leaves run_backfill_mode
BackfillMonthly ==
    /\ p_mode = "BACKFILL"
    /\ p_pc = "bf_monthly"
    /\ LET gd  == {GoldDay(ProcMonth.year, ProcMonth.month, d) : d \in {x \in Dates : pgold[x].exists}}
           out == CompactMonthlyGold(ProcMonth.year, ProcMonth.month, p_now, gd, {},
                                     FALSE, FALSE, {})
       IN /\ pgold' = [d \in Dates |->
                         IF GoldDay(ProcMonth.year, ProcMonth.month, d) \in out.gold_daily
                         THEN pgold[d] ELSE NoFile]
          /\ p_log' = Append(p_log, Step("monthly", 0,
                                         out.status \notin {"raised", "raised_TypeError"},
                                         out.status))
          /\ p_pc' = IF out.status \in {"raised", "raised_TypeError"}
                     THEN "raised" ELSE "returned"
    /\ UNCHANGED <<p_mode, p_i, p_now, p_fault, bronze, psilver, p_exit>>
    /\ UNCHANGED <<baseVars, splitVars, featVars, predVars, impVars>>

\* run_hourly_mode: process_weather_bronze_to_silver for the target hour
HourlyWeather ==
    /\ p_mode = "HOURLY"
    /\ p_pc = "h_weather"
    /\ LET w == BronzeToSilver("weather", bronze["weather"][1], psilver["weather"][1])
       IN /\ psilver' = [psilver EXCEPT !["weather"][1] = w.file]
          /\ p_log' = Append(p_log, Step("weather", 1, w.ok, w.note))
    /\ p_pc' = "h_electricity"
    /\ UNCHANGED <<p_mode, p_i, p_now, p_fault, bronze, pgold, p_exit>>
    /\ UNCHANGED <<baseVars, splitVars, featVars, predVars, impVars>>

\* run_hourly_mode: process_electricity_bronze_to_silver for the target hour
HourlyElectricity ==
    /\ p_mode = "HOURLY"
    /\ p_pc = "h_electricity"
    /\ LET e == BronzeToSilver("electricity", bronze["electricity"][1],
                               psilver["electricity"][1])
       IN /\ psilver' = [psilver EXCEPT !["electricity"][1] = e.file]
          /\ p_log' = Append(p_log, Step("electricity", 1, e.ok, e.note))
    /\ p_pc' = "h_gold"
    /\ UNCHANGED <<p_mode, p_i, p_now, p_fault, bronze, pgold, p_exit>>
    /\ UNCHANGED <<baseVars, splitVars, featVars, predVars, impVars>>

\* run_hourly_mode: process_hourly_silver_to_gold, then return the results
HourlyGold ==
    /\ p_mode = "HOURLY"
    /\ p_pc = "h_gold"
    /\ LET r == SilverToCanonical(psilver["weather"][1], psilver["electricity"][1],
                                  p_fault = 1, pgold[1])
       IN /\ pgold' = [pgold EXCEPT ![1] = r.file]
          /\ p_log' = Append(p_log, Step("canonical", 1, r.outcome = "written", r.outcome))
    /\ p_pc' = "returned"
    /\ UNCHANGED <<p_mode, p_i, p_now, p_fault, bronze, psilver, p_exit>>
    /\ UNCHANGED <<baseVars, splitVars, featVars, predVars, impVars>>

\* main(): sys.exit(0) after the mode handler returned, sys.exit(1) when an
\* exception left it
MainExit ==
    /\ p_pc \in {"returned", "raised"}
    /\ p_exit' = IF p_pc = "raised" THEN 1 ELSE 0
    /\ p_pc' = "exited"
    /\ UNCHANGED <<p_mode, p_i, p_now, p_fault, bronze, psilver, pgold, p_log>>
    /\ UNCHANGED <<baseVars, splitVars, featVars, predVars, impVars>>

\* no run of main()
InitProcIdle ==
    /\ p_mode = "none"
    /\ p_pc = "exited"
    /\ p_i = 1
    /\ p_now = AwareDT(0, 0, 0)
    /\ p_fault = 0
    /\ bronze = [s \in Sources |-> [d \in Dates |-> BronzeMissing]]
    /\ psilver = [s \in Sources |-> [d \in Dates |-> NoFile]]
    /\ pgold = [d \in Dates |-> NoFile]
    /\ p_log = <<>>
    /\ p_exit = -1

\* main() starts in BACKFILL mode over the dates, or in HOURLY mode for the
\* target hour, on a store that holds Bronze files only
InitProcRun ==
    /\ p_mode \in {"BACKFILL", "HOURLY"}
    /\ p_pc = IF p_mode = "BACKFILL" THEN "bf_silver" ELSE "h_weather"
    /\ p_i = 1
    /\ p_now \in ProcNowSet
    /\ p_fault \in 0 .. MaxDates
    /\ bronze \in [Sources -> [Dates -> BronzeFiles("weather") \cup BronzeFiles("electricity")]]
    /\ \A s \in Sources, d \in Dates : bronze[s][d] \in BronzeFiles(s)
    /\ p_mode = "HOURLY"
          => /\ p_fault \in {0, 1}
             /\ p_now = AwareDT(2025, 1, 15)
             /\ \A s \in Sources, d \in Dates \ {1} : bronze[s][d] = BronzeMissing
    /\ psilver = [s \in Sources |-> [d \in Dates |-> NoFile]]
    /\ pgold = [d \in Dates |-> NoFile]
    /\ p_log = <<>>
    /\ p_exit = -1

NextProc ==
    \/ BackfillSilverDate
    \/ BackfillCanonicalDate
    \/ BackfillMonthly
    \/ HourlyWeather
    \/ HourlyElectricity
    \/ HourlyGold
    \/ MainExit

----------------------------------------------------------------------------
(* DataSplitter.time_series_split *)

MaxSplitRows == 5

\* train_ratio, val_ratio, test_ratio in hundredths; the first is the
\* configured default, the last does not sum to 1.0
RatioTriples ==
    { <<70, 15, 15>>, <<60, 20, 20>>, <<80, 10, 10>>, <<50, 25, 25>>, <<70, 15, 10>> }

\* abs(total - 1.0) > 0.01
RatiosInvalid(r) ==
    LET total == r[1] + r[2] + r[3]
    IN  (IF total >= 100 THEN total - 100 ELSE 100 - total) > 1

\* int(n * ratio)
SizeOf(n, pct) == (n * pct) \div 100

\* the time-sorted timestamp columns of at most MaxSplitRows rows: each row is
\* at the hour of the row before it or one hour later
SortedTimestamps ==
    UNION { { ts \in [1 .. n -> 0 .. MaxSplitRows] :
                /\ n > 0 => ts[1] = 0
                /\ \A i \in 2 .. n : ts[i] - ts[i - 1] \in {0, 1} }
            : n \in 0 .. MaxSplitRows }

\* positions lo+1 .. hi of the input, in order (iloc[lo:hi], 0-based)
Slice(lo, hi, n) ==
    LET a == IF lo > n THEN n ELSE lo
        b == IF hi > n THEN n ELSE hi
    IN  [i \in 1 .. (IF b > a THEN b - a ELSE 0) |-> a + i]

\* the logging of the three periods: ts[0] and ts[-1] of each slice. On a
\* DatetimeIndex both are positional and raise IndexError on an empty slice;
\* on a Series with an integer index both are label lookups and -1 is never
\* a label
LogPeriods(kind, train, val, test) ==
    IF kind = "None" THEN "ok"
    ELSE IF kind = "Series" THEN "KeyError"
    ELSE IF Len(train) = 0 \/ Len(val) = 0 \/ Len(test) = 0 THEN "IndexError"
    ELSE "ok"

time_series_split(ts, kind, r) ==
    IF RatiosInvalid(r) THEN [state |-> "ValueError"]
    ELSE
        LET n          == Len(ts)
            train_size == SizeOf(n, r[1])
            val_size   == SizeOf(n, r[2])
            train_end  == train_size
            val_end    == train_size + val_size
            train      == Slice(0, train_end, n)
            val        == Slice(train_end, val_end, n)
            test       == Slice(val_end, n, n)
            logged     == LogPeriods(kind, train, val, test)
        IN  IF logged # "ok" THEN [state |-> logged]
            ELSE [state |-> "returned", train |-> train, val |-> val, test |-> test]

DoSplit ==
    /\ sp_out.state = "none"
    /\ sp_in.state = "call"
    /\ sp_out' = time_series_split(sp_in.ts, sp_in.kind, sp_in.ratios)
    /\ UNCHANGED <<sp_in, baseVars, procVars, featVars, predVars, impVars>>

InitSplitIdle ==
    /\ sp_in = [state |-> "idle"]
    /\ sp_out = [state |-> "none"]

\* timestamps is None, a DatetimeIndex (the declared type), or the Series
\* that prepare_train_data builds from the datetime column
InitSplitRun ==
    /\ sp_in \in [state : {"call"}, ts : SortedTimestamps,
                  kind : {"None", "DatetimeIndex", "Series"}, ratios : RatioTriples]
    /\ sp_out = [state |-> "none"]

----------------------------------------------------------------------------
(* XGBoostFeatureStrategy.create_features.  The canonical table has one   *)
(* numeric base column x; the time feature hour is extracted first and is  *)
(* a numeric column as well, so it gets lag and rolling features too.      *)
(* rolling mean is kept as the window sum and rolling std as               *)
(* w * sum(x^2) - sum(x)^2, which determine them for a fixed window w.     *)

MaxFeatRows == 3
MaxLag      == 2
MaxWindow   == 3
\* dt.dt.hour
HoursPerDay == 24
\* size of the discontinuity of the second input series
Jump        == 10

\* config['lag_periods'] and config['rolling_windows']
LagPeriodLists     == {<<k>> : k \in 1 .. MaxLag} \cup {<<1, MaxLag>>}
RollingWindowLists == {<<w>> : w \in 1 .. MaxWindow} \cup {<<2, MaxWindow>>}

FeatureConfigs ==
    [lag_periods : LagPeriodLists, rolling_windows : RollingWindowLists,
     create_interactions : BOOLEAN]

\* the datetime column of n rows sorted by the loader: hourly from start,
\* with the hour after row gap missing when gap > 0
DatetimeColumn(n, start, gap) ==
    [i \in 1 .. n |-> start + (i - 1) + (IF gap > 0 /\ i > gap THEN 1 ELSE 0)]

\* the second series: equal to x on all rows before k, shifted on rows >= k
Discontinuity(x, k) ==
    [i \in 1 .. Len(x) |->
        IF i >= k /\ ~x[i].nan THEN Num(x[i].v + Jump) ELSE x[i]]

\* _create_time_features: df['hour'] = dt.dt.hour
HourColumn(dts) == [i \in 1 .. Len(dts) |-> Num(dts[i] % HoursPerDay)]

NumericCols == {"x", "hour"}

BaseColumn(df, c) == IF c = "x" THEN df.x ELSE HourColumn(df.datetime)

\* a shift that reads the row lag positions later
Shift_forward(col, i, lag) ==
    IF (i + lag) \in 1 .. Len(col) THEN col[i + lag] ELSE NaN

\* df[col].shift(lag) at row i
Shift(col, i, lag) ==
    IF (i - lag) \in 1 .. Len(col) THEN col[i - lag] ELSE NaN

RECURSIVE WindowSum(_, _, _, _)
WindowSum(col, lo, hi, square) ==
    IF lo > hi THEN 0
    ELSE (IF square THEN col[lo].v * col[lo].v ELSE col[lo].v)
         + WindowSum(col, lo + 1, hi, square)

\* a window that needs one row more than its size
WindowFull_strict(col, i, window) ==
    /\ i - window >= 1
    /\ \A j \in (i - window + 1) .. i : ~col[j].nan

\* the rows lo .. i of rolling(window): a value needs window rows, none NaN
WindowFull(col, i, window) ==
    /\ i - window + 1 >= 1
    /\ \A j \in (i - window + 1) .. i : ~col[j].nan

\* df[col].rolling(window=window).mean() at row i
RollingMean(col, i, window) ==
    IF WindowFull(col, i, window)
    THEN Num(WindowSum(col, i - window + 1, i, FALSE))
    ELSE NaN

\* df[col].rolling(window=window).std() at row i (ddof = 1)
RollingStd(col, i, window) ==
    IF WindowFull(col, i, window) /\ window > 1
    THEN LET s  == WindowSum(col, i - window + 1, i, FALSE)
             s2 == WindowSum(col, i - window + 1, i, TRUE)
         IN  Num(window * s2 - s * s)
    ELSE NaN

\* df[col1] * df[col2] at row i
Interaction(col1, col2, i) ==
    IF col1[i].nan \/ col2[i].nan THEN NaN ELSE Num(col1[i].v * col2[i].v)

\* the columns of the feature table
FeatureNames(cfg) ==
    {<<"base", c, 0>> : c \in NumericCols}
    \cup {<<"lag", c, lag>> : c \in NumericCols, lag \in Range(cfg.lag_periods)}
    \cup {<<"rolling_mean", c, w>> : c \in NumericCols, w \in Range(cfg.rolling_windows)}
    \cup {<<"rolling_std", c, w>> : c \in NumericCols, w \in Range(cfg.rolling_windows)}
    \cup (IF cfg.create_interactions THEN {<<"interaction", "x", 0>>} ELSE {})

FeatureValue(df, name, i) ==
    LET col == BaseColumn(df, name[2])
    IN  CASE name[1] = "base"         -> col[i]
          [] name[1] = "lag"          -> Shift(col, i, name[3])
          [] name[1] = "rolling_mean" -> RollingMean(col, i, name[3])
          [] name[1] = "rolling_std"  -> RollingStd(col, i, name[3])
          [] name[1] = "interaction"  -> Interaction(df.x, HourColumn(df.datetime), i)

\* the feature table before dropna; index keeps the label of the input row
FeatureRow(cfg, df, i) ==
    [index |-> i, datetime |-> df.datetime[i],
     f |-> [name \in FeatureNames(cfg) |-> FeatureValue(df, name, i)]]

RECURSIVE FeatureDropNa(_, _, _)
FeatureDropNa(cfg, df, i) ==
    IF i > Len(df.x) THEN <<>>
    ELSE LET row == FeatureRow(cfg, df, i)
         IN  (IF \E name \in FeatureNames(cfg) : row.f[name].nan
              THEN <<>> ELSE <<row>>)
             \o FeatureDropNa(cfg, df, i + 1)

create_features(cfg, df) ==
    IF Len(df.x) = 0 THEN [state |-> "ValueError", rows |-> <<>>]
    ELSE [state |-> "returned", rows |-> FeatureDropNa(cfg, df, 1)]

\* create_features on the input series and on the series with the
\* discontinuity at row k
DoCreateFeatures ==
    /\ ft_in.state = "call"
    /\ ft_out.state = "none"
    /\ ft_out' = [state |-> "done",
                  a |-> create_features(ft_in.cfg, [datetime |-> ft_in.datetime, x |-> ft_in.x]),
                  b |-> create_features(ft_in.cfg,
                            [datetime |-> ft_in.datetime,
                             x |-> Discontinuity(ft_in.x, ft_in.k)])]
    /\ UNCHANGED <<ft_in, baseVars, procVars, splitVars, predVars, impVars>>

InitFeatRun ==
    /\ \E n \in 0 .. MaxFeatRows, start \in {0, HoursPerDay - 2} :
         \E gap \in 0 .. (IF n > 1 THEN n - 1 ELSE 0), k \in 1 .. (IF n > 0 THEN n ELSE 1) :
            \E x \in [1 .. n -> {Num(0), Num(1), NaN}], cfg \in FeatureConfigs :
                ft_in = [state |-> "call", cfg |-> cfg, k |-> k, x |-> x,
                         datetime |-> DatetimeColumn(n, start, gap)]
    /\ ft_out = [state |-> "none"]

InitFeatIdle ==
    /\ ft_in = [state |-> "idle"]
    /\ ft_out = [state |-> "none"]

----------------------------------------------------------------------------
(* ModelPredictor.predict.  target_date is kept as a (year, month, day)     *)
(* record and target_hour as the number int(target_hour); the steps that   *)
(* touch storage or the model may raise.                                   *)

\* days of a month given as target dates: the first and the last ones
PredDays == {1, 27, 28, 29, 30, 31}
PredDates ==
    {[year |-> y, month |-> m, day |-> d] :
        y \in Years, m \in GoldMonths, d \in PredDays} \cap
    {dt \in [year : Years, month : GoldMonths, day : PredDays] :
        dt.day <= DaysInMonth(dt.year, dt.month)}

\* a date step that does not carry into the next month
NextDate_sameMonth(d) == [d EXCEPT !.day = d.day + 1]

\* target_date_obj + timedelta(days=1)
NextDate(d) ==
    IF d.day < DaysInMonth(d.year, d.month) THEN [d EXCEPT !.day = d.day + 1]
    ELSE IF d.month < 12 THEN [d EXCEPT !.month = d.month + 1, !.day = 1]
    ELSE [year |-> d.year + 1, month |-> 1, day |-> 1]

\* the steps inside the try block, in program order
PredictSteps ==
    <<"load_model", "load_history", "create_features", "last_row",
      "drop_excluded", "model_predict", "emit">>

\* the steps that can raise: registry and storage reads, the model, the
\* empty-input check of create_features and iloc[[-1]] on an empty table
FailingSteps ==
    {"load_model", "load_history", "create_features", "last_row", "model_predict"}

\* a step that never reports its failure
StepOutcome_swallowed(step, fail) == "ok"

\* an exception raised by a step leaves the try block
StepOutcome(step, fail) == IF step = fail THEN "raise" ELSE "ok"

StepAfter(step) ==
    LET i == CHOOSE i \in DOMAIN PredictSteps : PredictSteps[i] = step
    IN  IF i < Len(PredictSteps) THEN PredictSteps[i + 1] ELSE "done"

\* predict, before the try block: the hour to predict and its date
PredictStart ==
    /\ pr_pc = "start"
    /\ LET predict_hour == pr_in.target_hour + 1
       IN  pr_out' =
             IF predict_hour >= HoursPerDay
             THEN [state |-> "running", predict_hour |-> 0,
                   target_date |-> NextDate(pr_in.target_date)]
             ELSE [state |-> "running", predict_hour |-> predict_hour,
                   target_date |-> pr_in.target_date]
    /\ pr_pc' = PredictSteps[1]
    /\ UNCHANGED <<pr_in, pr_done, baseVars, procVars, splitVars, featVars, impVars>>

\* one step of the try block; the except clause logs and re-raises
PredictStep ==
    /\ pr_pc \in Range(PredictSteps)
    /\ IF StepOutcome(pr_pc, pr_in.fail) = "raise"
       THEN /\ pr_out' = [state |-> "raised", step |-> pr_pc]
            /\ pr_pc' = "done"
            /\ UNCHANGED pr_done
       ELSE /\ pr_done' = Append(pr_done, pr_pc)
            /\ pr_pc' = StepAfter(pr_pc)
            /\ pr_out' =
                 IF pr_pc = "emit"
                 THEN [state |-> "returned",
                       prediction_for |->
                           [date |-> pr_out.target_date, hour |-> pr_out.predict_hour],
                       history_end |-> pr_out.history_end,
                       based_on_data_until |->
                           [date |-> pr_out.target_date, hour |-> pr_in.target_hour]]
                 ELSE IF pr_pc = "load_history"
                 THEN \* load_recent_hourly_gold(end_date=target_date, end_hour=target_hour)
                      [state |-> "running", predict_hour |-> pr_out.predict_hour,
                       target_date |-> pr_out.target_date,
                       history_end |->
                           [date |-> pr_out.target_date, hour |-> pr_in.target_hour]]
                 ELSE pr_out
    /\ UNCHANGED <<pr_in, baseVars, procVars, splitVars, featVars, impVars>>

InitPredRun ==
    /\ pr_in \in [state : {"call"}, target_date : PredDates,
                  target_hour : 0 .. (HoursPerDay - 1),
                  fail : FailingSteps \cup {"none"}]
    /\ pr_pc = "start"
    /\ pr_done = <<>>
    /\ pr_out = [state |-> "none"]

NextPred == PredictStart \/ PredictStep

InitPredIdle ==
    /\ pr_in = [state |-> "idle"]
    /\ pr_pc = "idle"
    /\ pr_done = <<>>
    /\ pr_out = [state |-> "none"]

----------------------------------------------------------------------------
(* XGBoostModelWrapper feature importance.  A gain score is a natural      *)
(* number (0 for a feature the booster never split on); a normalised        *)
(* importance v / total is kept as the fraction [num |-> v, den |-> total]. *)

MaxFeatures == 3
MaxGain     == 2
MaxTopN     == 4

RECURSIVE SumGains(_, _)
SumGains(gains, i) ==
    IF i > Len(gains) THEN 0 ELSE gains[i] + SumGains(gains, i + 1)

\* importances left as the raw gain scores
Normalize_raw(gains) ==
    [i \in DOMAIN gains |-> [name |-> i, num |-> gains[i], den |-> 1]]

\* total = sum(values); if total > 0: v / total
Normalize(gains) ==
    LET total == SumGains(gains, 1)
    IN  [i \in DOMAIN gains |->
            [name |-> i, num |-> gains[i], den |-> IF total > 0 THEN total ELSE 1]]

\* sorted(items, key = value, reverse = True): stable, largest first
RECURSIVE InsertByImportance(_, _)
InsertByImportance(sorted, item) ==
    IF sorted = <<>> THEN <<item>>
    ELSE IF Head(sorted).num >= item.num
         THEN <<Head(sorted)>> \o InsertByImportance(Tail(sorted), item)
         ELSE <<item>> \o sorted

RECURSIVE SortByImportance(_)
SortByImportance(items) ==
    IF items = <<>> THEN <<>>
    ELSE InsertByImportance(SortByImportance(SubSeq(items, 1, Len(items) - 1)),
                            items[Len(items)])

_extract_feature_importance(gains) == SortByImportance(Normalize(gains))

\* top_n = 0 stands for None and for 0: both take the branch that returns all
get_feature_importance(feature_importance_, top_n) ==
    IF top_n # 0
    THEN SubSeq(feature_importance_, 1,
                IF top_n < Len(feature_importance_) THEN top_n ELSE Len(feature_importance_))
    ELSE feature_importance_

DoGetFeatureImportance ==
    /\ im_in.state = "call"
    /\ im_out.state = "none"
    /\ im_out' = [state |-> "returned",
                  items |-> get_feature_importance(
                                _extract_feature_importance(im_in.gains), im_in.top_n)]
    /\ UNCHANGED <<im_in, baseVars, procVars, splitVars, featVars, predVars>>

InitImpRun ==
    /\ \E n \in 0 .. MaxFeatures :
         \E gains \in [1 .. n -> 0 .. MaxGain], top_n \in 0 .. MaxTopN :
            im_in = [state |-> "call", gains |-> gains, top_n |-> top_n]
    /\ im_out = [state |-> "none"]

InitImpIdle ==
    /\ im_in = [state |-> "idle"]
    /\ im_out = [state |-> "none"]

----------------------------------------------------------------------------
(* XGBoostModelWrapper.fit and predict: the StandardScaler of the pipeline. *)
(* A feature table is a sequence of numbers; the scaler remembers the rows  *)
(* it was fitted on.                                                        *)

MaxFitRows == 2

FitTables == UNION {[1 .. n -> 0 .. 1] : n \in 1 .. MaxFitRows}

\* X_val is None
NoVal == [given |-> FALSE, rows |-> <<>>]
Val(rows) == [given |-> TRUE, rows |-> rows]

\* StandardScaler() as built by build_pipeline
Unfitted == [fitted |-> FALSE, rows |-> <<>>]

ScalerOp(op, data, sc) == [op |-> op, data |-> data, fitted |-> sc.fitted]

\* fit: store the feature names and build a new pipeline
FitBuild ==
    /\ sc_pc = "fit"
    /\ scaler' = Unfitted
    /\ sc_pc' = IF sc_in.X_val.given THEN "val_transform" ELSE "pipeline_fit"
    /\ UNCHANGED <<sc_in, sc_log, sc_out, oldVars, imputeVars, ghVars, moreVars>>

\* fit: self.pipeline.named_steps['scaler'].transform(X_val) for the eval
\* set; transform of a scaler that was never fitted raises NotFittedError
FitTransformVal ==
    /\ sc_pc = "val_transform"
    /\ sc_log' = Append(sc_log, ScalerOp("transform", "val", scaler))
    /\ IF scaler.fitted
       THEN /\ sc_pc' = "pipeline_fit"
            /\ UNCHANGED sc_out
       ELSE /\ sc_pc' = "done"
            /\ sc_out' = [state |-> "NotFittedError"]
    /\ UNCHANGED <<sc_in, scaler, oldVars, imputeVars, ghVars, moreVars>>

\* fit: self.pipeline.fit(X_train, y_train, ...): the scaler is fitted on
\* X_train and transforms it
FitPipeline ==
    /\ sc_pc = "pipeline_fit"
    /\ scaler' = [fitted |-> TRUE, rows |-> sc_in.X_train]
    /\ sc_log' = sc_log \o <<ScalerOp("fit", "train", scaler),
                             ScalerOp("transform", "train", scaler')>>
    /\ sc_pc' = "metrics"
    /\ UNCHANGED <<sc_in, sc_out, oldVars, imputeVars, ghVars, moreVars>>

\* fit: pipeline.predict on X_train and, when given, on X_val; return metrics
FitMetrics ==
    /\ sc_pc = "metrics"
    /\ sc_log' = sc_log \o <<ScalerOp("transform", "train", scaler)>>
                        \o (IF sc_in.X_val.given
                            THEN <<ScalerOp("transform", "val", scaler)>> ELSE <<>>)
    /\ sc_out' = [state |-> "fitted"]
    /\ sc_pc' = "predict"
    /\ UNCHANGED <<sc_in, scaler, oldVars, imputeVars, ghVars, moreVars>>

\* predict(X_test) of the trainer's evaluation step
PredictTest ==
    /\ sc_pc = "predict"
    /\ sc_out.state = "fitted"
    /\ sc_log' = Append(sc_log, ScalerOp("transform", "test", scaler))
    /\ sc_out' = [state |-> "predicted"]
    /\ sc_pc' = "done"
    /\ UNCHANGED <<sc_in, scaler, oldVars, imputeVars, ghVars, moreVars>>

InitFitIdle ==
    /\ sc_in = [state |-> "idle"]
    /\ sc_pc = "idle"
    /\ scaler = Unfitted
    /\ sc_log = <<>>
    /\ sc_out = [state |-> "none"]

InitFitRun ==
    /\ sc_in \in [state : {"call"}, X_train : FitTables,
                  X_val : {NoVal} \cup {Val(r) : r \in FitTables}, X_test : FitTables]
    /\ sc_pc = "fit"
    /\ scaler = Unfitted
    /\ sc_log = <<>>
    /\ sc_out = [state |-> "none"]

NextFit == FitBuild \/ FitTransformVal \/ FitPipeline \/ FitMetrics \/ PredictTest

----------------------------------------------------------------------------
(* CanonicalMerger._impute_missing on one numeric business column *)

MaxColLen == 6

ImputeCells == {NaN, Num(0), Num(12)}

DoImpute ==
    /\ ic_in.state = "call"
    /\ ic_out.state = "none"
    /\ ic_out' = [state |-> "done",
                  interpolated |-> Interpolate(ic_in.col, InterpLimit),
                  filled |-> ImputeColumn(ic_in.col)]
    /\ UNCHANGED <<ic_in, oldVars, fitVars, ghVars, moreVars>>

InitImputeIdle ==
    /\ ic_in = [state |-> "idle"]
    /\ ic_out = [state |-> "none"]

InitImputeRun ==
    /\ \E n \in 1 .. MaxColLen : \E col \in [1 .. n -> ImputeCells] :
          ic_in = [state |-> "call", col |-> col]
    /\ ic_out = [state |-> "none"]

----------------------------------------------------------------------------
(* ProcessingCompactor.compact_hourly_gold on the Gold partition of a date: *)
(* the hours that have an hourly file HH_30.parquet, and data.parquet.      *)

MaxGoldHours == 3

GoldPartitions == [hourly : SUBSET (0 .. (MaxGoldHours - 1)), daily : BOOLEAN]

\* the check is skipped
DailyExists_always(store) == TRUE

\* self.s3.check_file_exists(daily_key)
DailyExists(store) == store.daily

RECURSIVE HoursInOrder(_)
\* the hourly keys of the listing, in key order
HoursInOrder(S) ==
    IF S = {} THEN <<>>
    ELSE LET h == CHOOSE x \in S : \A y \in S : x <= y
         IN  <<h>> \o HoursInOrder(S \ {h})

GoldStats(status, n) == [status |-> status, files_deleted |-> n]

\* list_objects_v2 of the partition and the two early returns
GoldHourlyList ==
    /\ gh_pc = "list"
    /\ IF gh_in.fault = "list"
       THEN gh_out' = GoldStats("error", 0) /\ gh_pc' = "done" /\ UNCHANGED gh_files
       ELSE IF gh_store.hourly = {} /\ ~gh_store.daily
       THEN gh_out' = GoldStats("no_files", 0) /\ gh_pc' = "done" /\ UNCHANGED gh_files
       ELSE IF gh_store.hourly = {}
       THEN gh_out' = GoldStats("no_hourly_files", 0) /\ gh_pc' = "done"
            /\ UNCHANGED gh_files
       ELSE /\ gh_files' = HoursInOrder(gh_store.hourly)
            /\ gh_pc' = "check"
            /\ UNCHANGED gh_out
    /\ UNCHANGED <<gh_in, gh_store, oldVars, fitVars, imputeVars, moreVars>>

\* the check that the daily file exists
GoldHourlyCheck ==
    /\ gh_pc = "check"
    /\ IF gh_in.fault = "head"
       THEN gh_out' = GoldStats("error", 0) /\ gh_pc' = "done"
       ELSE IF ~DailyExists(gh_store)
       THEN gh_out' = GoldStats("daily_not_found", 0) /\ gh_pc' = "done"
       ELSE gh_out' = GoldStats("running", 0) /\ gh_pc' = "delete"
    /\ UNCHANGED <<gh_in, gh_store, gh_files, oldVars, fitVars, imputeVars, moreVars>>

\* one iteration of the delete loop: delete_file deletes, returns False on a
\* ClientError, or another exception escapes to the except clause
GoldHourlyDelete ==
    /\ gh_pc = "delete"
    /\ gh_files # <<>>
    /\ \E outcome \in {"deleted", "false", "raise"} :
          /\ gh_store' = IF outcome = "deleted"
                         THEN [gh_store EXCEPT !.hourly = @ \ {Head(gh_files)}]
                         ELSE gh_store
          /\ gh_out' = IF outcome = "deleted"
                       THEN GoldStats("running", gh_out.files_deleted + 1)
                       ELSE IF outcome = "raise" THEN GoldStats("error", 0)
                       ELSE gh_out
          /\ gh_pc' = IF outcome = "raise" THEN "done" ELSE "delete"
    /\ gh_files' = Tail(gh_files)
    /\ UNCHANGED <<gh_in, oldVars, fitVars, imputeVars, moreVars>>

GoldHourlyReturn ==
    /\ gh_pc = "delete"
    /\ gh_files = <<>>
    /\ gh_out' = GoldStats("success", gh_out.files_deleted)
    /\ gh_pc' = "done"
    /\ UNCHANGED <<gh_in, gh_store, gh_files, oldVars, fitVars, imputeVars, moreVars>>

InitGoldHourlyIdle ==
    /\ gh_in = [state |-> "idle"]
    /\ gh_pc = "idle"
    /\ gh_store = [hourly |-> {}, daily |-> FALSE]
    /\ gh_files = <<>>
    /\ gh_out = GoldStats("none", 0)

InitGoldHourlyRun ==
    /\ gh_in \in [state : {"call"}, store : GoldPartitions,
                  fault : {"none", "list", "head"}]
    /\ gh_pc = "list"
    /\ gh_store = gh_in.store
    /\ gh_files = <<>>
    /\ gh_out = GoldStats("none", 0)

NextGoldHourly ==
    GoldHourlyList \/ GoldHourlyCheck \/ GoldHourlyDelete \/ GoldHourlyReturn


----------------------------------------------------------------------------
(* Ingestion service: DataCompactor.compact_weather_data and              *)
(* compact_electricity_data (Bronze hourly files -> data.json)            *)

MaxBronzeHours == 3
BronzeHours == 0 .. (MaxBronzeHours - 1)

\* the one record an HOURLY ingestion run stores in HH_30.json
HourRecord(h) == [datetime |-> h]

\* S3 objects of one Bronze date partition
BronzePartitions ==
    {[hourly |-> [h \in BronzeHours |-> IF h \in S THEN File(<<HourRecord(h)>>) ELSE NoFile],
      daily  |-> NoFile] : S \in SUBSET BronzeHours}

\* S3Writer.list_hourly_files: sorted keys of the HH_30.json objects
ListHourlyFiles(store) ==
    HoursInOrder({h \in BronzeHours : store.hourly[h].exists})

\* weather: data['days'][0]['hours'][0]; electricity: data['history']
ExtractRecords(src, rows) ==
    IF rows = <<>> THEN <<>>
    ELSE IF src = "weather" THEN <<rows[1]>> ELSE rows

BronzeStats(status, n, d) == [status |-> status, compacted |-> n, files_deleted |-> d]

\* list_hourly_files; no files -> {"status": "no_files"}
BronzeCompactList ==
    /\ bc_pc = "list"
    /\ LET files == ListHourlyFiles(bc_store)
       IN  IF files = <<>>
           THEN /\ bc_out' = BronzeStats("no_files", 0, 0)
                /\ bc_pc' = "done"
                /\ bc_files' = <<>>
           ELSE /\ bc_out' = bc_out
                /\ bc_pc' = "read"
                /\ bc_files' = files
    /\ UNCHANGED <<bc_in, bc_store, bc_all, priorVars, ldVars, mcVars>>

\* one turn of the read loop: read_json, extract, append; an exception
\* is logged and the loop continues
BronzeCompactRead ==
    /\ bc_pc = "read"
    /\ bc_files # <<>>
    /\ \E read_ok \in BOOLEAN :
          bc_all' = IF read_ok
                    THEN bc_all \o ExtractRecords(bc_in.src,
                                                  bc_store.hourly[Head(bc_files)].rows)
                    ELSE bc_all
    /\ bc_files' = Tail(bc_files)
    /\ UNCHANGED <<bc_in, bc_pc, bc_store, bc_out, priorVars, ldVars, mcVars>>

\* after the loop: nothing collected -> error; else sort and write data.json
\* (a ClientError of the write propagates)
BronzeCompactWrite ==
    /\ bc_pc = "read"
    /\ bc_files = <<>>
    /\ IF bc_all = <<>>
       THEN /\ bc_out' = BronzeStats("error", 0, 0)
            /\ bc_pc' = "done"
            /\ UNCHANGED <<bc_store, bc_files>>
       ELSE \E write_ok \in BOOLEAN :
              IF write_ok
              THEN /\ bc_store' = [bc_store EXCEPT !.daily = File(SortByDatetime(bc_all))]
                   /\ bc_files' = ListHourlyFiles(bc_in.store)
                   /\ bc_pc' = "delete"
                   /\ bc_out' = bc_out
              ELSE /\ bc_out' = BronzeStats("raised", 0, 0)
                   /\ bc_pc' = "done"
                   /\ UNCHANGED <<bc_store, bc_files>>
    /\ UNCHANGED <<bc_in, bc_all, priorVars, ldVars, mcVars>>

\* one turn of the delete loop over hourly_files: every listed file is
\* deleted; an exception is logged and the loop continues
BronzeCompactDelete ==
    /\ bc_pc = "delete"
    /\ bc_files # <<>>
    /\ \E delete_ok \in BOOLEAN :
          IF delete_ok
          THEN /\ bc_store' = [bc_store EXCEPT !.hourly[Head(bc_files)] = NoFile]
               /\ bc_out' = [bc_out EXCEPT !.files_deleted = @ + 1]
          ELSE UNCHANGED <<bc_store, bc_out>>
    /\ bc_files' = Tail(bc_files)
    /\ UNCHANGED <<bc_in, bc_pc, bc_all, priorVars, ldVars, mcVars>>

BronzeCompactReturn ==
    /\ bc_pc = "delete"
    /\ bc_files = <<>>
    /\ bc_out' = BronzeStats("success", Len(bc_all), bc_out.files_deleted)
    /\ bc_pc' = "done"
    /\ UNCHANGED <<bc_in, bc_store, bc_files, bc_all, priorVars, ldVars, mcVars>>

InitBronzeCompactIdle ==
    /\ bc_in = [state |-> "idle"]
    /\ bc_pc = "idle"
    /\ bc_store = [hourly |-> [h \in BronzeHours |-> NoFile], daily |-> NoFile]
    /\ bc_files = <<>>
    /\ bc_all = <<>>
    /\ bc_out = BronzeStats("none", 0, 0)

InitBronzeCompactRun ==
    /\ bc_in \in [state : {"call"}, src : Sources, store : BronzePartitions]
    /\ bc_pc = "list"
    /\ bc_store = bc_in.store
    /\ bc_files = <<>>
    /\ bc_all = <<>>
    /\ bc_out = BronzeStats("none", 0, 0)

NextBronzeCompact ==
    \/ BronzeCompactList
    \/ BronzeCompactRead
    \/ BronzeCompactWrite
    \/ BronzeCompactDelete
    \/ BronzeCompactReturn


----------------------------------------------------------------------------
(* HOURLY and COMPACTION_DAILY runs of the Processing service writing the *)
(* Gold partitions, DataLoader.load_recent_hourly_gold reading them, and  *)
(* steps 2-3 of ModelPredictor.predict                                    *)

MaxLoadDays == 2
\* hours of history the predictor asks for, scaled down from the default
\* hours = 168 of load_recent_hourly_gold
HistoryHours == 9
\* Asia/Ho_Chi_Minh is UTC+7
TzOffsetHours == 7

\* a partition label (date, hour) or a datetime, counted in hours
LoadLabels == 0 .. (MaxLoadDays * HoursPerDay - 1)
LoadDays   == 0 .. (MaxLoadDays - 1)
DayOf(t)   == t \div HoursPerDay
HourOf(t)  == t % HoursPerDay
LabelsOfDay(d) == {t \in LoadLabels : DayOf(t) = d}

EmptyPartition ==
    [hourly |-> [t \in LoadLabels |-> NoFile], daily |-> [d \in LoadDays |-> NoFile]]

\* head_object on HH_30.parquet / data.parquet of a date
HourlyAt(part, t) == IF t \in LoadLabels THEN part.hourly[t] ELSE NoFile
DailyAt(part, d)  == IF d \in LoadDays THEN part.daily[d] ELSE NoFile

\* _convert_timezone: tz_localize(UTC), tz_convert(Asia/Ho_Chi_Minh),
\* tz_localize(None)
ConvertTimezone(t) == t + TzOffsetHours

\* WeatherCleaner.clean on the HH_30.json of label t: the datetime is parsed
\* from query_date + ' ' + "HH:00:00", then converted
CleanWeather(t) ==
    <<[datetime |-> ConvertTimezone(t), temperature |-> Deg(20)]>>

\* ElectricityCleaner.clean on the HH_30.json of label t: pd.to_datetime of a
\* "...Z" string is already tz-aware and tz_localize('UTC') raises TypeError
CleanElectricity(fmt, t) ==
    IF fmt = "utc" THEN [state |-> "TypeError", rows |-> <<>>]
    ELSE [state |-> "ok",
          rows |-> <<[datetime |-> ConvertTimezone(t), total_load |-> Deg(100)]>>]

\* run_hourly_mode for the target (date, hour) = ld_clock: Bronze -> Silver
\* for both sources, then process_hourly_silver_to_gold
ProcessHourly ==
    /\ ld_clock \in LoadLabels
    /\ LET t == ld_clock
           w == File(CleanWeather(t))
           c == CleanElectricity(ld_fmt, t)
           e == IF c.state = "ok" THEN File(c.rows) ELSE ld_silver["electricity"].hourly[t]
           g == SilverToCanonical(w, e, FALSE, ld_gold.hourly[t])
       IN  /\ ld_silver' = [ld_silver EXCEPT !["weather"].hourly[t] = w,
                                             !["electricity"].hourly[t] = e]
           /\ ld_gold' = [ld_gold EXCEPT !.hourly[t] = g.file]
    /\ ld_clock' = ld_clock + 1
    /\ UNCHANGED <<ld_fmt, ld_out, priorVars, bcVars, mcVars>>

RECURSIVE RowsOfLabels(_, _)
RowsOfLabels(part, labels) ==
    IF labels = <<>> THEN <<>>
    ELSE part.hourly[Head(labels)].rows \o RowsOfLabels(part, Tail(labels))

\* _compact_weather_silver / _compact_electricity_silver without storage
\* faults: concat the hourly files of the date, sort, write data.parquet,
\* delete the hourly files
CompactSilverPartition(part, d) ==
    LET S == {t \in LabelsOfDay(d) : part.hourly[t].exists}
    IN  IF S = {} THEN part
        ELSE [hourly |-> [t \in LoadLabels |-> IF t \in S THEN NoFile ELSE part.hourly[t]],
              daily  |-> [part.daily EXCEPT
                             ![d] = File(SortByDatetime(RowsOfLabels(part, HoursInOrder(S))))]]

\* compact_hourly_gold without storage faults
CompactHourlyGoldPartition(part, d) ==
    LET S == {t \in LabelsOfDay(d) : part.hourly[t].exists}
    IN  IF S = {} \/ ~part.daily[d].exists THEN part
        ELSE [part EXCEPT !.hourly = [t \in LoadLabels |->
                                         IF t \in S THEN NoFile ELSE part.hourly[t]]]

\* run_compaction_daily_mode for yesterday: compact_daily_silver,
\* process_silver_to_canonical, compact_hourly_gold
CompactDaily ==
    /\ DayOf(ld_clock) - 1 \in LoadDays
    /\ LET d  == DayOf(ld_clock) - 1
           sw == CompactSilverPartition(ld_silver["weather"], d)
           se == CompactSilverPartition(ld_silver["electricity"], d)
           g  == SilverToCanonical(sw.daily[d], se.daily[d], FALSE, ld_gold.daily[d])
       IN  /\ ld_silver' = [src \in Sources |-> IF src = "weather" THEN sw ELSE se]
           /\ ld_gold' = CompactHourlyGoldPartition(
                             [ld_gold EXCEPT !.daily[d] = g.file], d)
    /\ UNCHANGED <<ld_fmt, ld_clock, ld_out, priorVars, bcVars, mcVars>>

RECURSIVE LoadLoop(_, _, _)
\* the while loop: the hourly file of the hour if it is there, else the
\* daily file of the date, tried only when the hour is "00"
LoadLoop(gold, current, end_datetime) ==
    IF current > end_datetime THEN <<>>
    ELSE (IF HourlyAt(gold, current).exists
          THEN <<HourlyAt(gold, current).rows>>
          ELSE IF HourOf(current) = 0 /\ DailyAt(gold, DayOf(current)).exists
          THEN <<DailyAt(gold, DayOf(current)).rows>>
          ELSE <<>>)
         \o LoadLoop(gold, current + 1, end_datetime)

RECURSIVE DropDuplicates(_, _)
\* drop_duplicates(subset=['datetime']): the first row of each datetime
DropDuplicates(df, seen) ==
    IF df = <<>> THEN <<>>
    ELSE IF Head(df).datetime \in seen THEN DropDuplicates(Tail(df), seen)
    ELSE <<Head(df)>> \o DropDuplicates(Tail(df), seen \cup {Head(df).datetime})

\* combined[(datetime >= start_datetime) & (datetime <= end_datetime)]
FilterRange(df, lo, hi) ==
    SelectSeq(df, LAMBDA r : r.datetime >= lo /\ r.datetime <= hi)

load_recent_hourly_gold(gold, end_datetime, hours) ==
    LET start_datetime == end_datetime - hours
        dfs == LoadLoop(gold, start_datetime, end_datetime)
    IN  IF dfs = <<>> THEN [state |-> "ValueError", rows |-> <<>>]
        ELSE [state |-> "returned",
              rows  |-> FilterRange(SortByDatetime(DropDuplicates(Concat(dfs), {})),
                                    start_datetime, end_datetime)]

\* a call of load_recent_hourly_gold for the hour processed last
LoadRecentHourlyGold ==
    /\ ld_clock > 0
    /\ \E hours \in {HistoryHours} :
         LET end_datetime == ld_clock - 1
             r == load_recent_hourly_gold(ld_gold, end_datetime, hours)
         IN  ld_out' = [op |-> "load", end |-> end_datetime, hours |-> hours,
                        gold |-> ld_gold, state |-> r.state, rows |-> r.rows]
    /\ UNCHANGED <<ld_fmt, ld_clock, ld_silver, ld_gold, priorVars, bcVars, mcVars>>

\* lag periods and rolling windows of the strategy, the largest lag equal
\* to the history window as in the defaults (168 and 168)
HistoryFeatureConfig ==
    [lag_periods |-> <<1, HistoryHours>>, rolling_windows |-> <<2, 3>>,
     create_interactions |-> FALSE]

\* predict for target_datetime = the hour processed last: the date rolls
\* over when the hour is 23, the history is loaded up to (rolled date,
\* target_hour), features are created, the last row is taken
PredictFromHistory ==
    /\ ld_clock > 0
    /\ LET target == ld_clock - 1
           end_datetime == IF HourOf(target) + 1 >= HoursPerDay
                           THEN target + HoursPerDay ELSE target
           h  == load_recent_hourly_gold(ld_gold, end_datetime, HistoryHours)
           df == [datetime |-> [i \in 1 .. Len(h.rows) |-> h.rows[i].datetime],
                  x        |-> [i \in 1 .. Len(h.rows) |->
                                   Num(h.rows[i].temperature.v \div Scale)]]
           f  == IF h.state = "returned" THEN create_features(HistoryFeatureConfig, df)
                 ELSE [state |-> h.state, rows |-> <<>>]
       IN  ld_out' = [op |-> "predict", end |-> target, hours |-> HistoryHours,
                      gold |-> ld_gold,
                      state |-> IF f.state # "returned" THEN f.state
                                ELSE IF f.rows = <<>> THEN "IndexError"
                                ELSE "returned",
                      rows |-> IF f.rows = <<>> THEN <<>>
                               ELSE <<[datetime |-> f.rows[Len(f.rows)].datetime]>>]
    /\ UNCHANGED <<ld_fmt, ld_clock, ld_silver, ld_gold, priorVars, bcVars, mcVars>>

InitLoadIdle ==
    /\ ld_fmt = "none"
    /\ ld_clock = 0
    /\ ld_silver = [src \in Sources |-> EmptyPartition]
    /\ ld_gold = EmptyPartition
    /\ ld_out = [op |-> "none"]

InitLoadRun ==
    /\ ld_fmt \in {"naive", "utc"}
    /\ ld_clock = 0
    /\ ld_silver = [src \in Sources |-> EmptyPartition]
    /\ ld_gold = EmptyPartition
    /\ ld_out = [op |-> "none"]

NextLoad ==
    ProcessHourly \/ CompactDaily \/ LoadRecentHourlyGold \/ PredictFromHistory


----------------------------------------------------------------------------
(* compact_monthly_gold from its listing on (the call passed the          *)
(* eligibility check), on Gold files with rows, and load_canonical_data   *)

MaxDeleteFailures == 1

MonthDays(year, month) == 1 .. DaysInMonth(year, month)

\* the row the daily Gold file of a day holds
DayRow(d) == [datetime |-> d * HoursPerDay]

\* the month's Gold partition: day=DD/data.parquet files and the monthly
\* data.parquet
MonthPartitions(year, month) ==
    {[daily   |-> [d \in MonthDays(year, month) |->
                      IF d \in missing THEN NoFile ELSE File(<<DayRow(d)>>)],
      monthly |-> NoFile] : missing \in {{}, {1}}}

DailyFilesIn(store) == HoursInOrder({d \in DOMAIN store.daily : store.daily[d].exists})

RECURSIVE ReadDaily(_, _)
ReadDaily(store, days) ==
    IF days = <<>> THEN <<>>
    ELSE <<store.daily[Head(days)].rows>> \o ReadDaily(store, Tail(days))

RECURSIVE SortByKeys(_, _)
SortByKeys(df, keys) ==
    IF keys = {} THEN <<>>
    ELSE LET k == CHOOSE x \in keys : \A y \in keys : x <= y
         IN  SelectSeq(df, LAMBDA r : r.datetime = k) \o SortByKeys(df, keys \ {k})

\* df.sort_values('datetime').reset_index(drop=True) of a long table: the
\* rows of each datetime in input order, the datetimes ascending
SortValues(df) == SortByKeys(df, Datetimes(df))

\* load_canonical_data(year, month), every get_object succeeding: all keys
\* under the prefix that end with '/data.parquet' (the monthly file and the
\* daily files), concatenated and sorted; no drop_duplicates
load_canonical_data(store) ==
    LET dfs == (IF store.monthly.exists THEN <<store.monthly.rows>> ELSE <<>>)
               \o ReadDaily(store, DailyFilesIn(store))
    IN  IF dfs = <<>> THEN [state |-> "ValueError", rows |-> <<>>]
        ELSE [state |-> "returned", rows |-> SortValues(Concat(dfs))]

MonthlyStats(status, deleted) == [status |-> status, files_deleted |-> deleted]

\* list the daily files; none -> no_files; fewer than monthrange -> incomplete_data
MonthlyList ==
    /\ mc_pc = "list"
    /\ LET daily_files == DailyFilesIn(mc_store)
       IN  IF daily_files = <<>>
           THEN /\ mc_out' = MonthlyStats("no_files", 0)
                /\ mc_pc' = "done"
                /\ mc_files' = <<>>
           ELSE IF Len(daily_files) < DaysInMonth(mc_in.year, mc_in.month)
           THEN /\ mc_out' = MonthlyStats("incomplete_data", 0)
                /\ mc_pc' = "done"
                /\ mc_files' = <<>>
           ELSE /\ mc_out' = mc_out
                /\ mc_pc' = "read"
                /\ mc_files' = daily_files
    /\ UNCHANGED <<mc_in, mc_store, mc_df, mc_fails, priorVars, bcVars, ldVars>>

\* read every daily file, concat, sort; an exception is re-raised
MonthlyRead ==
    /\ mc_pc = "read"
    /\ \E read_ok \in BOOLEAN :
         IF read_ok
         THEN /\ mc_df' = SortValues(Concat(ReadDaily(mc_store, mc_files)))
              /\ mc_pc' = "write"
              /\ mc_out' = mc_out
         ELSE /\ mc_df' = mc_df
              /\ mc_pc' = "done"
              /\ mc_out' = MonthlyStats("raised", 0)
    /\ UNCHANGED <<mc_in, mc_store, mc_files, mc_fails, priorVars, bcVars, ldVars>>

\* write year=YYYY/month=MM/data.parquet
MonthlyWrite ==
    /\ mc_pc = "write"
    /\ \E write_ok \in BOOLEAN :
         IF write_ok
         THEN /\ mc_store' = [mc_store EXCEPT !.monthly = File(mc_df)]
              /\ mc_pc' = "delete"
              /\ mc_out' = mc_out
         ELSE /\ mc_store' = mc_store
              /\ mc_pc' = "done"
              /\ mc_out' = MonthlyStats("raised", 0)
    /\ UNCHANGED <<mc_in, mc_files, mc_df, mc_fails, priorVars, bcVars, ldVars>>

\* one turn of the delete loop; delete_file returns False on a ClientError
MonthlyDelete ==
    /\ mc_pc = "delete"
    /\ mc_files # <<>>
    /\ \E delete_ok \in (IF mc_fails < MaxDeleteFailures THEN BOOLEAN ELSE {TRUE}) :
         IF delete_ok
         THEN /\ mc_store' = [mc_store EXCEPT !.daily[Head(mc_files)] = NoFile]
              /\ mc_out' = [mc_out EXCEPT !.files_deleted = @ + 1]
              /\ mc_fails' = mc_fails
         ELSE /\ mc_fails' = mc_fails + 1
              /\ UNCHANGED <<mc_store, mc_out>>
    /\ mc_files' = Tail(mc_files)
    /\ UNCHANGED <<mc_in, mc_pc, mc_df, priorVars, bcVars, ldVars>>

MonthlyReturn ==
    /\ mc_pc = "delete"
    /\ mc_files = <<>>
    /\ mc_out' = MonthlyStats("success", mc_out.files_deleted)
    /\ mc_pc' = "done"
    /\ UNCHANGED <<mc_in, mc_store, mc_files, mc_df, mc_fails, priorVars, bcVars, ldVars>>

\* the process is killed inside the call
MonthlyCrash ==
    /\ mc_pc \in {"read", "write", "delete"}
    /\ mc_pc' = "crashed"
    /\ UNCHANGED <<mc_in, mc_store, mc_files, mc_df, mc_fails, mc_out,
                   priorVars, bcVars, ldVars>>

InitMonthlyIdle ==
    /\ mc_in = [state |-> "idle"]
    /\ mc_pc = "idle"
    /\ mc_store = [daily |-> <<>>, monthly |-> NoFile]
    /\ mc_files = <<>>
    /\ mc_df = <<>>
    /\ mc_fails = 0
    /\ mc_out = MonthlyStats("none", 0)

InitMonthlyRun ==
    /\ \E y \in {2025}, m \in {2} :
         \E store \in MonthPartitions(y, m) :
            /\ mc_in = [state |-> "call", year |-> y, month |-> m, store |-> store]
            /\ mc_store = store
    /\ mc_pc = "list"
    /\ mc_files = <<>>
    /\ mc_df = <<>>
    /\ mc_fails = 0
    /\ mc_out = MonthlyStats("none", 0)

NextMonthly ==
    \/ MonthlyList
    \/ MonthlyRead
    \/ MonthlyWrite
    \/ MonthlyDelete
    \/ MonthlyReturn
    \/ MonthlyCrash

----------------------------------------------------------------------------
(* Specifications *)

InitMoreIdle ==
    /\ InitBronzeCompactIdle
    /\ InitLoadIdle
    /\ InitMonthlyIdle

InitLateIdle ==
    /\ InitFitIdle
    /\ InitImputeIdle
    /\ InitGoldHourlyIdle
    /\ InitMoreIdle

Init ==
    /\ prefix \in {SilverPath(s) : s \in Sources} \cup {GoldCanonicalPath}
    /\ InitSilver
    /\ InitGold
    /\ InitMergeIdle
    /\ InitProcIdle
    /\ InitSplitIdle
    /\ InitFeatIdle
    /\ InitPredIdle
    /\ InitImpIdle
    /\ InitLateIdle

Next == NextSilver \/ NextGold

Spec == Init /\ [][Next]_vars

InitMerge ==
    /\ prefix = "none"
    /\ InitSilver
    /\ InitGold
    /\ weather_df \in WeatherTables
    /\ electricity_df \in ElectricityTables
    /\ joined = <<>>
    /\ canonical = <<>>
    /\ mstage = "input"
    /\ InitProcIdle
    /\ InitSplitIdle
    /\ InitFeatIdle
    /\ InitPredIdle
    /\ InitImpIdle
    /\ InitLateIdle

NextMerge == DoMerge

SpecMerge == InitMerge /\ [][NextMerge]_vars

InitProc ==
    /\ prefix = "none"
    /\ InitSilver
    /\ InitGold
    /\ InitMergeIdle
    /\ InitProcRun
    /\ InitSplitIdle
    /\ InitFeatIdle
    /\ InitPredIdle
    /\ InitImpIdle
    /\ InitLateIdle

SpecProc == InitProc /\ [][NextProc]_vars

\* every specification below starts from an empty store with the
\* Processing service idle
\* the state in which no component of the earlier sections runs
InitOldIdle ==
    /\ prefix = "none"
    /\ InitSilver
    /\ InitGold
    /\ InitMergeIdle
    /\ InitProcIdle
    /\ InitSplitIdle
    /\ InitFeatIdle
    /\ InitPredIdle
    /\ InitImpIdle

InitBaseIdle ==
    /\ prefix = "none"
    /\ InitSilver
    /\ InitGold
    /\ InitMergeIdle
    /\ InitProcIdle
    /\ InitLateIdle

InitSplit ==
    /\ InitBaseIdle
    /\ InitSplitRun
    /\ InitFeatIdle
    /\ InitPredIdle
    /\ InitImpIdle

SpecSplit == InitSplit /\ [][DoSplit]_vars

InitFeat ==
    /\ InitBaseIdle
    /\ InitSplitIdle
    /\ InitFeatRun
    /\ InitPredIdle
    /\ InitImpIdle

SpecFeat == InitFeat /\ [][DoCreateFeatures]_vars

InitPred ==
    /\ InitBaseIdle
    /\ InitSplitIdle
    /\ InitFeatIdle
    /\ InitPredRun
    /\ InitImpIdle

SpecPred == InitPred /\ [][NextPred]_vars

InitImp ==
    /\ InitBaseIdle
    /\ InitSplitIdle
    /\ InitFeatIdle
    /\ InitPredIdle
    /\ InitImpRun

SpecImp == InitImp /\ [][DoGetFeatureImportance]_vars

InitFit ==
    /\ InitOldIdle
    /\ InitFitRun
    /\ InitImputeIdle
    /\ InitGoldHourlyIdle
    /\ InitMoreIdle

SpecFit == InitFit /\ [][NextFit]_vars

InitImpute ==
    /\ InitOldIdle
    /\ InitFitIdle
    /\ InitImputeRun
    /\ InitGoldHourlyIdle
    /\ InitMoreIdle

SpecImpute == InitImpute /\ [][DoImpute]_vars

InitGoldHourly ==
    /\ InitOldIdle
    /\ InitFitIdle
    /\ InitImputeIdle
    /\ InitGoldHourlyRun
    /\ InitMoreIdle

SpecGoldHourly == InitGoldHourly /\ [][NextGoldHourly]_vars

InitBronzeCompact ==
    /\ InitOldIdle
    /\ InitFitIdle
    /\ InitImputeIdle
    /\ InitGoldHourlyIdle
    /\ InitBronzeCompactRun
    /\ InitLoadIdle
    /\ InitMonthlyIdle

SpecBronzeCompact == InitBronzeCompact /\ [][NextBronzeCompact]_vars

InitLoad ==
    /\ InitOldIdle
    /\ InitFitIdle
    /\ InitImputeIdle
    /\ InitGoldHourlyIdle
    /\ InitBronzeCompactIdle
    /\ InitLoadRun
    /\ InitMonthlyIdle

SpecLoad == InitLoad /\ [][NextLoad]_vars

InitMonthly ==
    /\ InitOldIdle
    /\ InitFitIdle
    /\ InitImputeIdle
    /\ InitGoldHourlyIdle
    /\ InitBronzeCompactIdle
    /\ InitLoadIdle
    /\ InitMonthlyRun

SpecMonthly == InitMonthly /\ [][NextMonthly]_vars

----------------------------------------------------------------------------
(* Claims about the compaction runs (checked under Spec) *)

RowsOf(f) == Range(f.rows)

\* in the sequence of storage operations of a monthly run, every delete comes
\* after a successful write of the monthly file
WriteBeforeDeleteOps(ops) ==
    \A i \in 1 .. Len(ops) :
        ops[i].op \in {"delete", "delete_fail"}
            => \E j \in 1 .. (i - 1) : ops[j].op = "write_ok"

C2_CrashRerunDurable ==
    (pc = "idle" /\ crash_state = "recovered" /\ ~faulted)
        => \A s \in Sources : orig[s] \subseteq RowsOf(silver[s][DailyKey])

Completed(r) == r.status \in {"success", "no_files", "already_compacted"}

\* C3: a second daily compaction run right after a completed first run on the
\* same date reports already_compacted or no_files and neither writes the daily
\* partition nor deletes anything.
C3_SecondRunNoOp ==
    \A s \in Sources :
        (seq = "done2" /\ Completed(prev[s]))
            => /\ results[s].status \in {"already_compacted", "no_files"}
               /\ ~touched[s]

\* how the month (year, month) lies relative to now in the target timezone
MonthKind(year, month, now_vn) ==
    IF year = now_vn.year /\ month = now_vn.month THEN "current"
    ELSE IF year > now_vn.year \/ (year = now_vn.year /\ month > now_vn.month) THEN "future"
    ELSE "elapsed"

LastKind == MonthKind(m_last.year, m_last.month, m_last.now)

MutatingOps(ops) == {i \in 1 .. Len(ops) : ops[i].op \in {"write_ok", "delete"}}

\* C4: for the current month and a future month compact_monthly_gold performs
\* no storage operation; is_month_complete answers True exactly for the months
\* whose last day is strictly before now.
C4_EligibleIffElapsed ==
    m_last.called
        => /\ (LastKind \in {"current", "future"} => m_last.ops = <<>>)
           /\ (m_last.complete = "true" <=> LastKind = "elapsed")

\* C5: for an elapsed month with fewer daily files than calendar days
\* compact_monthly_gold returns incomplete_data and writes and deletes nothing.
C5_IncompleteData ==
    (m_last.called /\ LastKind = "elapsed"
        /\ m_last.found < DaysInMonth(m_last.year, m_last.month))
        => /\ m_last.status = "incomplete_data"
           /\ MutatingOps(m_last.ops) = {}

\* C6: for the current month, a future month, or an elapsed month with missing
\* daily files, compact_monthly_gold returns a status and does not raise.
C6_NeverRaises ==
    (m_last.called
        /\ \/ LastKind \in {"current", "future"}
           \/ m_last.found < DaysInMonth(m_last.year, m_last.month))
        => m_last.status \notin {"raised", "raised_TypeError"}

----------------------------------------------------------------------------
(* Claims about CanonicalMerger.merge (checked under SpecMerge) *)

WeatherDts     == Datetimes(weather_df)
ElectricityDts == Datetimes(electricity_df)
CanonicalDts   == Datetimes(canonical)

InRange(c) == ~c.nan /\ c.v >= TempMin * Scale /\ c.v <= TempMax * Scale

\* some row of the inner join carries a temperature inside the physical range,
\* and some row a demand that is not negative
HasUsableTemperature == \E i \in 1 .. Len(joined) : InRange(joined[i].temperature)
HasUsableDemand ==
    \E i \in 1 .. Len(joined) :
        ~joined[i].electricity_demand.nan /\ joined[i].electricity_demand.v >= 0

\* C7 as stated: the datetimes of the canonical table are exactly the datetimes
\* that occur in both the weather and the electricity table.
C7_DatetimesAreIntersection ==
    mstage = "done" => CanonicalDts = WeatherDts \cap ElectricityDts

\* C7 amended: every canonical datetime occurs in both inputs (an hour present
\* in one source only yields no row), and the canonical datetimes are exactly
\* the common ones whenever some joined row has an in-range temperature and
\* some joined row a non-negative demand.
C7_InnerJoin ==
    mstage = "done"
        => /\ CanonicalDts \subseteq (WeatherDts \cap ElectricityDts)
           /\ (HasUsableTemperature /\ HasUsableDemand)
                 => CanonicalDts = WeatherDts \cap ElectricityDts

\* C7 witness: the weather table has an hour the electricity table lacks, and
\* the canonical table holds the (two or more) common hours only
C7_Witness ==
    /\ mstage = "done"
    /\ WeatherDts \ ElectricityDts # {}
    /\ Cardinality(CanonicalDts) >= 2
    /\ CanonicalDts = WeatherDts \cap ElectricityDts

\* C8: the datetime column of the canonical table is non-decreasing and holds
\* no value twice, also when a datetime occurs more than once in an input.
C8_SortedNoDuplicates ==
    mstage = "done"
        => \A i, j \in 1 .. Len(canonical) :
              i < j => /\ canonical[i].datetime <= canonical[j].datetime
                       /\ canonical[i].datetime # canonical[j].datetime

\* the row at place i of the joined table is kept by merge, with a temperature
\* inside the physical range
KeptAndFilled(i) ==
    /\ Len(canonical) = Len(joined)
    /\ canonical[i].datetime = joined[i].datetime
    /\ InRange(canonical[i].temperature)

\* C9 as stated: a joined row with an out-of-range temperature is still in the
\* canonical table, with a filled temperature instead of the raw value.
C9_OutlierRowKept ==
    mstage = "done"
        => \A i \in 1 .. Len(joined) :
              TempOutlier(joined[i].temperature) => KeptAndFilled(i)

\* C9 amended: a joined row with an out-of-range temperature is still in the
\* canonical table, with a filled in-range temperature, provided some joined
\* row has an in-range temperature and some joined row a non-negative demand.
C9_OutlierRowFilled ==
    (mstage = "done" /\ HasUsableTemperature /\ HasUsableDemand)
        => \A i \in 1 .. Len(joined) :
              TempOutlier(joined[i].temperature) => KeptAndFilled(i)

\* C9 witness: a joined row with an out-of-range temperature was kept and
\* carries an in-range temperature
C9_Witness ==
    /\ mstage = "done"
    /\ \E i \in 1 .. Len(joined) :
          TempOutlier(joined[i].temperature) /\ KeptAndFilled(i)

\* C10: every row of the canonical table has a demand that is present and not
\* negative and a temperature that is present and inside [TempMin, TempMax].
C10_CanonicalRowsValid ==
    mstage = "done"
        => \A i \in 1 .. Len(canonical) :
              /\ canonical[i].datetime \in Dts
              /\ ~canonical[i].electricity_demand.nan
              /\ canonical[i].electricity_demand.v >= 0
              /\ InRange(canonical[i].temperature)

\* C10 witness: a missing temperature stood next to an out-of-range one (so the
\* first imputation filled it from the outlier) and the rows were all kept
C10_Witness ==
    /\ mstage = "done"
    /\ Len(canonical) = Len(joined)
    /\ \E i \in 1 .. (Len(joined) - 1) :
          /\ joined[i].temperature.nan
          /\ TempOutlier(joined[i + 1].temperature)
          /\ TempOutlier(ImputeMissing(joined)[i].temperature)

----------------------------------------------------------------------------
(* Claims about the Processing service run modes (checked under SpecProc) *)

\* both Silver files of date d exist and share no datetime
ZeroOverlap(d) ==
    /\ psilver["weather"][d].exists
    /\ psilver["electricity"][d].exists
    /\ Datetimes(psilver["weather"][d].rows)
          \cap Datetimes(psilver["electricity"][d].rows) = {}

\* C11: when the weather and electricity tables of a date (or hour) share no
\* timestamp, the canonical stage of that date fails on validation and no Gold
\* file is written for it.
C11_EmptyJoinHalts ==
    \A i \in 1 .. Len(p_log) :
        (p_log[i].step = "canonical" /\ ZeroOverlap(p_log[i].date)
                                     /\ p_fault # p_log[i].date)
            => /\ p_log[i].note = "raised"
               /\ ~pgold[p_log[i].date].exists

\* the steps of the log that handle one date
DateSteps == {i \in 1 .. Len(p_log) : p_log[i].step \in {"weather", "electricity", "canonical"}}

\* C19: a finished BACKFILL run has processed every date in each of its loops,
\* whatever failed on earlier dates, and its exit status is non-zero exactly
\* when some date failed.
C19_BatchContinuesAndReports ==
    (p_mode = "BACKFILL" /\ p_pc = "exited")
        => /\ \A d \in Dates, st \in {"weather", "electricity", "canonical"} :
                 \E i \in DateSteps : p_log[i].step = st /\ p_log[i].date = d
           /\ (p_exit # 0) <=> (\E i \in DateSteps : ~p_log[i].ok)

\* C20: a finished HOURLY run that met an absent Bronze or Silver file stopped
\* at that step and exited non-zero.
C20_HourlyMissingSourceFatal ==
    (p_mode = "HOURLY" /\ p_pc = "exited")
        => \A i \in 1 .. Len(p_log) :
              p_log[i].note \in {"bronze_missing", "missing"}
                 => /\ p_exit # 0
                    /\ Len(p_log) = i

----------------------------------------------------------------------------
(* Claims about the Models service (checked under SpecSplit, SpecFeat,     *)
(* SpecPred and SpecImp)                                                  *)

\* the positions lo+1 .. hi in ascending order
Positions(lo, hi) == [i \in 1 .. (hi - lo) |-> lo + i]

\* every timestamp of slice a is strictly before every timestamp of slice b
StrictlyBefore(ts, a, b) ==
    \A i \in Range(a), j \in Range(b) : ts[i] < ts[j]

\* C12: for any valid ratio triple and any time-sorted input of n rows,
\* time_series_split returns the three contiguous positional slices
\* [0, train_size), [train_size, train_size + val_size) and
\* [train_size + val_size, n), which are disjoint, cover all rows in order,
\* and every train timestamp is strictly before every validation timestamp,
\* every validation timestamp strictly before every test timestamp.
C12_SplitContiguousOrdered ==
    (sp_in.state = "call" /\ sp_out.state # "none" /\ ~RatiosInvalid(sp_in.ratios))
       => LET n  == Len(sp_in.ts)
              a  == SizeOf(n, sp_in.ratios[1])
              b  == a + SizeOf(n, sp_in.ratios[2])
          IN  /\ sp_out.state = "returned"
              /\ sp_out.train = Positions(0, a)
              /\ sp_out.val = Positions(a, b)
              /\ sp_out.test = Positions(b, n)
              /\ sp_out.train \o sp_out.val \o sp_out.test = Positions(0, n)
              /\ sp_in.kind # "None"
                    => /\ StrictlyBefore(sp_in.ts, sp_out.train, sp_out.val)
                       /\ StrictlyBefore(sp_in.ts, sp_out.val, sp_out.test)

\* the two input tables of a create_features run
SeriesA == [datetime |-> ft_in.datetime, x |-> ft_in.x]
SeriesB == [datetime |-> ft_in.datetime, x |-> Discontinuity(ft_in.x, ft_in.k)]

\* the rows of a returned feature table whose index label is below k
RowsBefore(rows, k) == {rows[j] : j \in {j \in DOMAIN rows : rows[j].index < k}}

\* C13: no future leakage.  For two input series that agree on all rows
\* before k and differ only from row k on, every feature value computed for a
\* row i < k (time, lag, rolling mean/std, interaction) is the same in both,
\* and the rows before k that create_features returns are the same in both.
C13_NoFutureLeakage ==
    ft_out.state = "done"
       => /\ \A i \in 1 .. Len(ft_in.x) :
                i < ft_in.k
                   => FeatureRow(ft_in.cfg, SeriesA, i) = FeatureRow(ft_in.cfg, SeriesB, i)
          /\ RowsBefore(ft_out.a.rows, ft_in.k) = RowsBefore(ft_out.b.rows, ft_in.k)

\* C13 witness: a run in which a row before the discontinuity is returned
\* and the discontinuity shows in the features of a later returned row
C13_Witness ==
    /\ ft_out.state = "done"
    /\ ft_in.k > 1
    /\ RowsBefore(ft_out.a.rows, ft_in.k) # {}
    /\ Range(ft_out.a.rows) # Range(ft_out.b.rows)
    /\ Len(ft_out.a.rows) = Len(ft_out.b.rows)

MaxOf(S) == CHOOSE m \in S : \A e \in S : e <= m

NoMissingValues == \A i \in DOMAIN ft_in.x : ~ft_in.x[i].nan

\* the index labels of the returned rows, in order
IndexOf(rows) == [j \in DOMAIN rows |-> rows[j].index]

\* row i has a lag or a rolling window that extends before the first row
ExtendsBeforeStart(cfg, i) ==
    \/ \E lag \in Range(cfg.lag_periods) : i - lag < 1
    \/ \E w \in Range(cfg.rolling_windows) : i - w + 1 < 1

KeptIndex(cfg, n) == {i \in 1 .. n : ~ExtendsBeforeStart(cfg, i)}

\* C14 as stated: for an input of total_rows rows with no missing values,
\* create_features returns at least total_rows - max(max(L), max(W)) rows and
\* drops exactly the earliest rows, whose lag or window extends before the
\* start of the data.
C14_RowsKept ==
    (ft_out.state = "done" /\ NoMissingValues)
       => LET n   == Len(ft_in.x)
              cfg == ft_in.cfg
              m   == MaxOf(Range(cfg.lag_periods) \cup Range(cfg.rolling_windows))
          IN  /\ Len(ft_out.a.rows) >= n - m
              /\ Range(IndexOf(ft_out.a.rows)) = KeptIndex(cfg, n)

\* C14 amended: the same for a non-empty input when every rolling window is
\* at least 2; the rows returned are then exactly the rows after the first
\* max(max(L), max(W) - 1) rows, in order.
C14_RowsKeptWindowsAtLeastTwo ==
    (/\ ft_out.state = "done"
     /\ NoMissingValues
     /\ Len(ft_in.x) >= 1
     /\ \A w \in Range(ft_in.cfg.rolling_windows) : w >= 2)
       => LET n    == Len(ft_in.x)
              cfg  == ft_in.cfg
              maxL == MaxOf(Range(cfg.lag_periods))
              maxW == MaxOf(Range(cfg.rolling_windows))
              m    == MaxOf({maxL, maxW})
              d    == MaxOf({maxL, maxW - 1})
          IN  /\ ft_out.a.state = "returned"
              /\ Len(ft_out.a.rows) >= n - m
              /\ Range(IndexOf(ft_out.a.rows)) = KeptIndex(cfg, n)
              /\ IndexOf(ft_out.a.rows) = [j \in 1 .. (IF n > d THEN n - d ELSE 0) |-> d + j]

\* C14 witness: an input without missing values, windows of at least 2, and
\* a result that drops the earliest rows and keeps later ones
C14_Witness ==
    /\ ft_out.state = "done"
    /\ NoMissingValues
    /\ \A w \in Range(ft_in.cfg.rolling_windows) : w >= 2
    /\ Len(ft_out.a.rows) >= 1
    /\ Len(ft_out.a.rows) < Len(ft_in.x)

\* C15: every lag feature is the base column at a fixed offset in hours: for
\* every returned row with timestamp t, every numeric column and every
\* configured lag k, the lag feature equals the value of the column in the
\* input row whose timestamp is t - k hours, also when hours are missing.
C15_LagIsHourOffset ==
    ft_out.state = "done"
       => \A j \in DOMAIN ft_out.a.rows :
             LET row == ft_out.a.rows[j]
             IN  \A c \in NumericCols, lag \in Range(ft_in.cfg.lag_periods) :
                    \E i \in DOMAIN ft_in.x :
                        /\ ft_in.datetime[i] = row.datetime - lag
                        /\ row.f[<<"lag", c, lag>>] = BaseColumn(SeriesA, c)[i]

\* hours from the start of the first modelled year to (date, hour:00)
RECURSIVE DaysBeforeYear(_)
DaysBeforeYear(y) ==
    IF \A z \in Years : y <= z THEN 0
    ELSE (IF IsLeap(y - 1) THEN 366 ELSE 365) + DaysBeforeYear(y - 1)

RECURSIVE DaysBeforeMonth(_, _)
DaysBeforeMonth(y, m) ==
    IF m = 1 THEN 0 ELSE DaysInMonth(y, m - 1) + DaysBeforeMonth(y, m - 1)

HourNumber(d, h) ==
    (DaysBeforeYear(d.year) + DaysBeforeMonth(d.year, d.month) + (d.day - 1)) * HoursPerDay + h

IsCalendarDate(d) ==
    /\ d.month \in 1 .. 12
    /\ d.day \in 1 .. DaysInMonth(d.year, d.month)

\* C16: for every input (date, hour) with hour in 00..23, the predicted
\* timestamp is a calendar date and hour exactly one hour after date hour:00,
\* rolling over to 00:00 of the next calendar day when hour = 23, and the
\* emitted record names that timestamp.
C16_PredictionForNextHour ==
    /\ pr_out.state = "running"
          => /\ IsCalendarDate(pr_out.target_date)
             /\ pr_out.predict_hour \in 0 .. (HoursPerDay - 1)
             /\ HourNumber(pr_out.target_date, pr_out.predict_hour)
                   = HourNumber(pr_in.target_date, pr_in.target_hour) + 1
    /\ pr_out.state = "returned"
          => /\ IsCalendarDate(pr_out.prediction_for.date)
             /\ pr_out.prediction_for.hour \in 0 .. (HoursPerDay - 1)
             /\ HourNumber(pr_out.prediction_for.date, pr_out.prediction_for.hour)
                   = HourNumber(pr_in.target_date, pr_in.target_hour) + 1

\* C16 witness: ("2024-01-31", "23") gives a record for "2024-02-01T00:00:00"
C16_Witness ==
    /\ pr_in.state = "call"
    /\ pr_in.target_date = [year |-> 2024, month |-> 1, day |-> 31]
    /\ pr_in.target_hour = 23
    /\ pr_out.state = "returned"
    /\ pr_out.prediction_for = [date |-> [year |-> 2024, month |-> 2, day |-> 1], hour |-> 0]

\* the steps before step s, in program order
StepsBefore(s) ==
    LET i == CHOOSE i \in DOMAIN PredictSteps : PredictSteps[i] = s
    IN  SubSeq(PredictSteps, 1, i - 1)

IsPrefix(s, t) == Len(s) <= Len(t) /\ SubSeq(t, 1, Len(s)) = s

\* C17: predict runs its steps in the fixed order (load model, load history,
\* feature engineering, last row, drop excluded columns, model prediction,
\* emit) and is fail-fast: when a step fails the exception propagates, no
\* later step runs, no step is run again, and no record is returned; a
\* record is returned only after all steps ran.
C17_FixedOrderFailFast ==
    /\ pr_in.state = "call" => IsPrefix(pr_done, PredictSteps)
    /\ pr_out.state = "returned" => (pr_done = PredictSteps /\ pr_in.fail = "none")
    /\ pr_out.state = "raised"
          => /\ pr_out.step = pr_in.fail
             /\ pr_done = StepsBefore(pr_in.fail)
             /\ pr_pc = "done"
    /\ (pr_in.state = "call" /\ pr_in.fail # "none")
          => /\ pr_out.state # "returned"
             /\ pr_in.fail \notin Range(pr_done)

\* C17 witness: feature engineering failed after the model and the history
\* were loaded, and the call raised
C17_Witness ==
    /\ pr_in.state = "call"
    /\ pr_in.fail = "create_features"
    /\ pr_out.state = "raised"
    /\ pr_done = <<"load_model", "load_history">>

RECURSIVE SumNum(_, _)
SumNum(items, i) ==
    IF i > Len(items) THEN 0 ELSE items[i].num + SumNum(items, i + 1)

\* the model has at least one feature of nonzero importance
HasNonzeroImportance == \E i \in DOMAIN im_in.gains : im_in.gains[i] > 0

NonzeroCount == Cardinality({i \in DOMAIN im_in.gains : im_in.gains[i] > 0})

\* the returned importances are non-negative fractions of one denominator,
\* largest first
NonNegativeSorted(items) ==
    /\ \A j \in DOMAIN items :
          /\ items[j].num >= 0
          /\ items[j].den = SumGains(im_in.gains, 1)
    /\ \A j \in 1 .. (Len(items) - 1) : items[j].num >= items[j + 1].num

\* the returned importances sum to 1
SumsToOne(items) ==
    /\ Len(items) > 0
    /\ SumNum(items, 1) = items[1].den

\* C18 as stated: for a model with at least one nonzero-importance feature
\* the importances returned for any top_n are non-negative, sorted in
\* descending order, and sum to 1.0.
C18_ImportanceSumsToOne ==
    (im_out.state = "returned" /\ HasNonzeroImportance)
       => /\ NonNegativeSorted(im_out.items)
          /\ SumsToOne(im_out.items)

\* C18 amended: they are non-negative and sorted for any top_n, and they sum
\* to 1.0 exactly when top_n is None (or 0) or at least the number of
\* features with nonzero importance.
C18_ImportanceSumsToOneUntruncated ==
    (im_out.state = "returned" /\ HasNonzeroImportance)
       => /\ NonNegativeSorted(im_out.items)
          /\ SumsToOne(im_out.items)
                <=> (im_in.top_n = 0 \/ im_in.top_n >= NonzeroCount)

\* C18 witness: all importances of a model with two features of different
\* nonzero gain are returned and sum to 1
C18_Witness ==
    /\ im_out.state = "returned"
    /\ NonzeroCount >= 2
    /\ \E i, j \in DOMAIN im_in.gains : im_in.gains[i] < im_in.gains[j] /\ im_in.gains[i] > 0
    /\ im_in.top_n >= NonzeroCount
    /\ SumsToOne(im_out.items)

----------------------------------------------------------------------------
(* Claims about XGBoostModelWrapper.fit (checked under SpecFit) *)

\* C21: in fit(X_train, y_train, X_val, y_val) the scaler is fitted on the
\* training rows only and before it first transforms validation rows;
\* validation and test rows only pass through the transform of the already
\* fitted scaler and never cause a fit.
C21_ScalerFittedOnTrainFirst ==
    /\ \A i \in DOMAIN sc_log :
          /\ sc_log[i].op = "fit" => sc_log[i].data = "train"
          /\ (sc_log[i].op = "transform" /\ sc_log[i].data \in {"val", "test"})
                => /\ sc_log[i].fitted
                   /\ \E j \in 1 .. (i - 1) : sc_log[j].op = "fit"
    /\ scaler.fitted => scaler.rows = sc_in.X_train
    /\ sc_out.state # "NotFittedError"

----------------------------------------------------------------------------
(* Claims about imputation (checked under SpecImpute) *)

\* the length of the run of missing cells of col that cell i lies in
RunLength(col, i) ==
    LET lo == CHOOSE a \in 1 .. i :
                 /\ \A j \in a .. i : col[j].nan
                 /\ (a = 1 \/ ~col[a - 1].nan)
        hi == CHOOSE b \in i .. Len(col) :
                 /\ \A j \in i .. b : col[j].nan
                 /\ (b = Len(col) \/ ~col[b + 1].nan)
    IN  hi - lo + 1

\* C22: two-tier imputation by gap length.  In a column with a known value a
\* run of at most 3 missing hours is filled by interpolation; in a longer run
\* no cell is filled by interpolation and every cell is filled by the
\* forward/backward fill; afterwards no cell is missing.
C22_TwoTierImputation ==
    (ic_out.state = "done" /\ ValidIdx(ic_in.col) # {})
       => \A i \in DOMAIN ic_in.col :
             /\ ~ic_out.filled[i].nan
             /\ ic_in.col[i].nan
                   => IF RunLength(ic_in.col, i) <= InterpLimit
                      THEN /\ ~ic_out.interpolated[i].nan
                           /\ ic_out.filled[i] = ic_out.interpolated[i]
                      ELSE ic_out.interpolated[i].nan

----------------------------------------------------------------------------
(* Claims about the history window of the Predictor (checked under SpecPred *)
(* and SpecLoad)                                                            *)

\* C26: for every input (date, hour), including hour = 23, the history
\* window requested from the loader ends at the input (date, hour) and the
\* record's based_on_data_until names the input date and hour; the rollover
\* changes only prediction_for.
C26_HistoryEndsAtInput ==
    pr_out.state = "returned"
       => /\ pr_out.history_end = [date |-> pr_in.target_date, hour |-> pr_in.target_hour]
          /\ pr_out.based_on_data_until
                = [date |-> pr_in.target_date, hour |-> pr_in.target_hour]

----------------------------------------------------------------------------
(* Claims about the daily Silver partition over several runs (checked under *)
(* Spec)                                                                    *)

\* C25: over any sequence of hourly Silver writes and daily compaction runs
\* of one source and date the daily partition never loses rows: a row that a
\* compaction put in the daily partition is in it after every later step.
C25_DailyNeverLosesRows ==
    [][ \A s \in Sources :
           silver[s][DailyKey].exists
              => /\ silver'[s][DailyKey].exists
                 /\ RowsOf(silver[s][DailyKey]) \subseteq RowsOf(silver'[s][DailyKey])
      ]_vars

----------------------------------------------------------------------------
(* Claims about compact_hourly_gold (checked under SpecGoldHourly) *)

\* C24: compact_hourly_gold deletes hourly Gold files of a date only when
\* the daily Gold file existed at the time of the check; when it does not
\* exist the call returns daily_not_found and leaves storage unchanged, and
\* when there are no hourly files it returns no_files / no_hourly_files and
\* deletes nothing.
C24_DeleteOnlyIfDailyExists ==
    gh_in.state = "call"
       => /\ gh_store # gh_in.store
                => /\ gh_in.store.daily
                   /\ gh_pc \in {"delete", "done"}
                   /\ gh_store.daily
                   /\ gh_store.hourly \subseteq gh_in.store.hourly
          /\ gh_out.status = "daily_not_found"
                => (gh_store = gh_in.store /\ ~gh_in.store.daily /\ gh_in.store.hourly # {})
          /\ gh_out.status \in {"no_files", "no_hourly_files"}
                => (gh_store = gh_in.store /\ gh_in.store.hourly = {})
          /\ (gh_pc = "done" /\ gh_in.fault = "none" /\ gh_in.store.hourly = {})
                => gh_out.status = (IF gh_in.store.daily THEN "no_hourly_files" ELSE "no_files")
          /\ (gh_pc = "done" /\ gh_in.fault = "none" /\ gh_in.store.hourly # {}
                /\ ~gh_in.store.daily)
                => gh_out.status = "daily_not_found"

\* C24 witness: a call that found the daily file and deleted hourly files
C24_Witness ==
    /\ gh_in.state = "call"
    /\ gh_out.status = "success"
    /\ gh_out.files_deleted >= 2
    /\ gh_in.store.daily
    /\ gh_store.hourly # gh_in.store.hourly


----------------------------------------------------------------------------
(* Claims about the Bronze compaction (checked under SpecBronzeCompact) *)

\* hourly Bronze files that were there before the call and are gone now
DeletedBronzeHours ==
    {h \in BronzeHours : bc_in.store.hourly[h].exists /\ ~bc_store.hourly[h].exists}

\* C29: Bronze compaction deletes an hourly file only if the records of
\* that file are in the compacted data.json written by the same run; a
\* file whose read failed, or whose records were not extracted, stays.
C29_DeleteOnlyCompactedBronze ==
    bc_in.state = "call" =>
        \A h \in DeletedBronzeHours :
            /\ bc_store.daily.exists
            /\ Range(bc_in.store.hourly[h].rows) \subseteq Range(bc_store.daily.rows)


----------------------------------------------------------------------------
(* Claims about the hourly Gold partitions and their loader (checked under *)
(* SpecLoad)                                                               *)

\* every row stored in a Gold partition, in an hourly or a daily file
StoredRows(gold) ==
    UNION {Range(gold.hourly[t].rows) : t \in LoadLabels}
    \cup UNION {Range(gold.daily[d].rows) : d \in LoadDays}

\* the rows of the partition (date, hour) = t: those of its hourly file,
\* or the ones the HOURLY run of t left in the daily file of the date
RowsOfPartition(gold, t) ==
    Range(HourlyAt(gold, t).rows)
    \cup {r \in Range(DailyAt(gold, DayOf(t)).rows) : r.datetime = ConvertTimezone(t)}

\* C27: load_recent_hourly_gold(end_date, end_hour, hours) returns every
\* hour of [end - hours, end] that is stored in Gold, in an hourly file or
\* only in the compacted daily file of its day, also for the first day of a
\* window that starts after 00:00 when that day was already compacted.
C27_LoadReturnsEveryStoredHour ==
    ld_out.op = "load" =>
        \A t \in (ld_out.end - ld_out.hours) .. ld_out.end :
            \A r \in RowsOfPartition(ld_out.gold, t) :
                (r.datetime >= ld_out.end - ld_out.hours /\ r.datetime <= ld_out.end)
                    => r \in Range(ld_out.rows)

\* C30: in HOURLY mode every row written to the Silver or Gold partition
\* labelled (date D, hour HH) has datetime D HH:00, so the range filter of
\* load_recent_hourly_gold keeps the rows of every hourly file it loaded.
C30_LabelMatchesContent ==
    /\ \A t \in LoadLabels :
          /\ \A src \in Sources :
                \A r \in Range(ld_silver[src].hourly[t].rows) : r.datetime = t
          /\ \A r \in Range(ld_gold.hourly[t].rows) : r.datetime = t
    /\ ld_out.op = "load" =>
          \A t \in (ld_out.end - ld_out.hours) .. ld_out.end :
              Range(HourlyAt(ld_out.gold, t).rows) \subseteq Range(ld_out.rows)

\* the canonical history has a row for every hour of [lo, hi]
GapFree(gold, lo, hi) ==
    \A u \in lo .. hi : \E r \in StoredRows(gold) : r.datetime = u

\* C23: the history window the predictor loads is sufficient: for a
\* gap-free canonical history, feature engineering over the loaded window
\* leaves at least one row, and the row used as prediction input is the one
\* of the input (date, hour).
C23_HistoryWindowSufficient ==
    (/\ ld_out.op = "predict"
     /\ GapFree(ld_out.gold, ld_out.end - ld_out.hours, ld_out.end))
        => /\ ld_out.state = "returned"
           /\ ld_out.rows[1].datetime = ld_out.end


----------------------------------------------------------------------------
(* Claims about load_canonical_data during monthly compaction (checked    *)
(* under SpecMonthly)                                                     *)

NoDuplicateDatetimes(df) ==
    \A i, j \in 1 .. Len(df) : i # j => df[i].datetime # df[j].datetime

====
